---- MODULE Spec2Model ----
(***************************************************************************)
(* State-machine model of the Gmail Slack bot: the per-user conversation   *)
(* memory (gmail-assistant.ts), the thread session registry and the two    *)
(* Slack handlers that drive them (index.ts), and the agentic tool loop    *)
(* of processNaturalLanguageRequest.                                       *)
(*                                                                         *)
(* Every `await` of the source is a suspension point: an action of the     *)
(* model is the synchronous code between two awaits of one handler.        *)
(* Date.now() is read once per synchronous segment.                        *)
(*                                                                         *)
(* A JavaScript string is modelled as a sequence of atomic tokens, the     *)
(* empty string being <<>>; concatenation is \o.                           *)
(***************************************************************************)
EXTENDS Integers, Sequences, FiniteSets, TLC

-----------------------------------------------------------------------------
(* Program constants *)

MEMORY_TIMEOUT_MS == 30 * 60 * 1000

MAX_HISTORY_MESSAGES == 20

SESSION_TIMEOUT_MS == 30 * 60 * 1000

FALLBACK_RESPONSE == <<"I processed your request but have no response to show.">>

-----------------------------------------------------------------------------
(* Bounds of the model *)

\* The clock takes the values p * MEMORY_TIMEOUT_MS + m with p <= MaxPeriods and
\* m <= 1: whole timeouts and the millisecond after each.
MaxPeriods == 1

\* Natural-language turns begun in one behaviour of Spec.
MaxTurns == 1

\* Natural-language turns begun in one behaviour of SpecHistory.
MaxTurnsLong == 11

\* Model calls one turn may make before the model stops answering tool_use.
MaxModelCalls == 2

\* Natural-language turns begun in a behaviour of SpecRegistry.
MaxTurnsRegistry == 2

Users == {"U1", "U2"}

Channels == {"C1"}

Threads == {"T1", "T2"}

TaskIds == {1, 2}

\* A heap cell for every reference that can be live at once.
ObjIds == 1 .. (Cardinality(Users) + Cardinality(TaskIds))

NoState == 0

NoUser == "nobody"

NoThread == "none"

-----------------------------------------------------------------------------
(* Strings *)

StrOf(tok) == IF tok = "" THEN <<>> ELSE <<tok>>

\* String.prototype.trim on the raw texts the model feeds in.
Trim(raw) ==
  CASE raw = " " -> ""
    [] raw = " CLEAR " -> "CLEAR"
    [] raw = " Stop " -> "Stop"
    [] raw = "Start Over " -> "Start Over"
    [] raw = " show unread " -> "show unread"
    [] OTHER -> raw

\* Mutant: the words are compared as typed.
ToLowerCaseExact(s) == s

\* String.prototype.toLowerCase on the trimmed texts.
ToLowerCase(s) ==
  CASE s = "CLEAR" -> "clear"
    [] s = "Stop" -> "stop"
    [] s = "Start Over" -> "start over"
    [] s = "DONE" -> "done"
    [] s = "End" -> "end"
    [] OTHER -> s

-----------------------------------------------------------------------------
(* Messages of a conversation *)

\* { role, content: string }
TextMessage(role, str) ==
  [role |-> role, form |-> "string", text |-> str, blocks |-> <<>>]

\* { role, content: ContentBlock[] }
BlockMessage(role, blocks) ==
  [role |-> role, form |-> "blocks", text |-> <<>>, blocks |-> blocks]

\* The input object of a tool request: every field is <<>> when absent and
\* <<v>> when present with value v.
NoArgs ==
  [query |-> <<>>, maxResults |-> <<>>, count |-> <<>>, messageId |-> <<>>,
   to |-> <<>>, subject |-> <<>>, body |-> <<>>, name |-> <<>>,
   labelId |-> <<>>, messageIds |-> <<>>]

Has(input, field) == input[field] # <<>>

TextBlock(tok) ==
  [type |-> "text", text |-> StrOf(tok), id |-> "", name |-> "", input |-> NoArgs]

ToolUseBlock(id, name, input) ==
  [type |-> "tool_use", text |-> <<>>, id |-> id, name |-> name, input |-> input]

\* { type: 'tool_result', tool_use_id, content }
ToolResultBlock(id, str) ==
  [type |-> "tool_result", text |-> str, id |-> id, name |-> "", input |-> NoArgs]

-----------------------------------------------------------------------------
(* Memory store: gmail-assistant.ts *)

\* A ConversationState object; pushed is the history of every push made to
\* the object (a history variable, not read by the program).
NewConversationState(t) ==
  [messages |-> <<>>, lastActivity |-> t, pushed |-> <<>>]

FreeCell == [messages |-> <<>>, lastActivity |-> 0, pushed |-> <<>>]

\* Mutant: the loop tests length > MAX_HISTORY_MESSAGES + 1.
RECURSIVE TrimHistoryLate(_)
TrimHistoryLate(msgs) ==
  IF Len(msgs) > MAX_HISTORY_MESSAGES + 1 THEN TrimHistoryLate(Tail(msgs)) ELSE msgs

\* Mutant: the loop drops the newest entry (pop) instead of the oldest (shift).
RECURSIVE TrimHistoryPop(_)
TrimHistoryPop(msgs) ==
  IF Len(msgs) > MAX_HISTORY_MESSAGES
  THEN TrimHistoryPop(SubSeq(msgs, 1, Len(msgs) - 1))
  ELSE msgs

\* while (state.messages.length > MAX_HISTORY_MESSAGES) state.messages.shift()
RECURSIVE TrimHistory(_)
TrimHistory(msgs) ==
  IF Len(msgs) > MAX_HISTORY_MESSAGES THEN TrimHistory(Tail(msgs)) ELSE msgs

\* Mutant: every append stores the entry twice.
PushMessageTwice(cell, m) ==
  [cell EXCEPT !.messages = TrimHistory(@ \o <<m, m>>),
               !.pushed = @ \o <<m, m>>]

\* state.messages.push(m) followed by the trimming loop
PushMessage(cell, m) ==
  [cell EXCEPT !.messages = TrimHistory(Append(@, m)),
               !.pushed = Append(@, m)]

\* Mutant: a state idle for exactly the timeout is already deleted.
cleanupOldConversationsEarly(mem, hp, t) ==
  [u \in Users |->
     IF mem[u] # NoState /\ t - hp[mem[u]].lastActivity >= MEMORY_TIMEOUT_MS
     THEN NoState ELSE mem[u]]

\* now - state.lastActivity > MEMORY_TIMEOUT_MS
cleanupOldConversations(mem, hp, t) ==
  [u \in Users |->
     IF mem[u] # NoState /\ t - hp[mem[u]].lastActivity > MEMORY_TIMEOUT_MS
     THEN NoState ELSE mem[u]]

\* Mutant: a clear empties the whole map.
clearConversationAll(mem, userId) == [u \in Users |-> NoState]

\* conversationMemory.delete(userId)
clearConversation(mem, userId) == [mem EXCEPT ![userId] = NoState]

-----------------------------------------------------------------------------
(* Session registry: index.ts *)

NoSession ==
  [userId |-> NoUser, channelId |-> "none", threadTs |-> NoThread, lastActivity |-> 0]

Keys == Channels \X Threads

getSessionKey(channelId, threadTs) == <<channelId, threadTs>>

HasSession(sess, key) == key \in Keys /\ sess[key].userId # NoUser

\* Mutant: a session idle for exactly the timeout already counts as expired.
ExpiredKeysEarly(sess, t) ==
  {k \in Keys : HasSession(sess, k) /\ t - sess[k].lastActivity >= SESSION_TIMEOUT_MS}

\* now - session.lastActivity > SESSION_TIMEOUT_MS
ExpiredKeys(sess, t) ==
  {k \in Keys : HasSession(sess, k) /\ t - sess[k].lastActivity > SESSION_TIMEOUT_MS}

\* Mutant: the sweep spares the memory of a user who has another session
\* that has not expired.
cleanupExpiredSessionsSparing(sess, mem, t) ==
  LET expired == ExpiredKeys(sess, t) IN
  [sessions |-> [k \in Keys |-> IF k \in expired THEN NoSession ELSE sess[k]],
   mem |-> [u \in Users |->
              IF /\ \E k \in expired : sess[k].userId = u
                 /\ ~\E k \in Keys \ expired : HasSession(sess, k) /\ sess[k].userId = u
              THEN NoState ELSE mem[u]]]

\* Mutant: the sweep deletes the expired sessions and leaves the memory alone.
cleanupExpiredSessionsOnly(sess, mem, t) ==
  [sessions |-> [k \in Keys |-> IF k \in ExpiredKeys(sess, t) THEN NoSession ELSE sess[k]],
   mem |-> mem]

\* Deletes every expired session and clears the memory of its user.
cleanupExpiredSessions(sess, mem, t) ==
  LET expired == ExpiredKeys(sess, t) IN
  [sessions |-> [k \in Keys |-> IF k \in expired THEN NoSession ELSE sess[k]],
   mem |-> [u \in Users |->
              IF \E k \in expired : sess[k].userId = u THEN NoState ELSE mem[u]]]

isActiveSession(sess, mem, channelId, threadTs, t) ==
  LET swept == cleanupExpiredSessions(sess, mem, t) IN
  [sessions |-> swept.sessions, mem |-> swept.mem,
   result |-> HasSession(swept.sessions, getSessionKey(channelId, threadTs))]

\* Mutant: the lookup returns the session without touching lastActivity.
getSessionNoRefresh(sess, mem, channelId, threadTs, t) ==
  LET swept == cleanupExpiredSessions(sess, mem, t)
      key == getSessionKey(channelId, threadTs)
  IN [sessions |-> swept.sessions,
      mem |-> swept.mem,
      result |-> IF HasSession(swept.sessions, key) THEN swept.sessions[key]
                 ELSE NoSession]

getSession(sess, mem, channelId, threadTs, t) ==
  LET swept == cleanupExpiredSessions(sess, mem, t)
      key == getSessionKey(channelId, threadTs)
      found == HasSession(swept.sessions, key)
  IN [sessions |-> IF found
                   THEN [swept.sessions EXCEPT ![key].lastActivity = t]
                   ELSE swept.sessions,
      mem |-> swept.mem,
      result |-> IF found
                 THEN [swept.sessions[key] EXCEPT !.lastActivity = t]
                 ELSE NoSession]

\* Mutant: registering a session drops every other session of the registry.
createSessionAlone(sess, userId, channelId, threadTs, t) ==
  [k \in Keys |->
     IF k = getSessionKey(channelId, threadTs)
     THEN [userId |-> userId, channelId |-> channelId, threadTs |-> threadTs,
           lastActivity |-> t]
     ELSE NoSession]

createSession(sess, userId, channelId, threadTs, t) ==
  [sess EXCEPT ![getSessionKey(channelId, threadTs)] =
     [userId |-> userId, channelId |-> channelId, threadTs |-> threadTs,
      lastActivity |-> t]]

\* Mutant: ending a session empties the whole Memory Store.
endSessionWipingAll(sess, mem, channelId, threadTs) ==
  LET key == getSessionKey(channelId, threadTs) IN
  IF HasSession(sess, key)
  THEN [sessions |-> [sess EXCEPT ![key] = NoSession],
        mem |-> [u \in Users |-> NoState],
        result |-> TRUE]
  ELSE [sessions |-> sess, mem |-> mem, result |-> FALSE]

endSession(sess, mem, channelId, threadTs) ==
  LET key == getSessionKey(channelId, threadTs) IN
  IF HasSession(sess, key)
  THEN [sessions |-> [sess EXCEPT ![key] = NoSession],
        mem |-> clearConversation(mem, sess[key].userId),
        result |-> TRUE]
  ELSE [sessions |-> sess, mem |-> mem, result |-> FALSE]

-----------------------------------------------------------------------------
(* State *)

VARIABLES
  now,                 \* Date.now()
  conversationMemory,  \* Map<userId, ConversationState>: user -> heap cell
  heap,                \* the ConversationState objects
  activeSessions,      \* Map<key, ThreadSession>
  tasks,               \* the handler invocations in flight
  turns,               \* natural-language turns begun so far
  lastEvent            \* history variable: the step that led to this state

vars == <<now, conversationMemory, heap, activeSessions, tasks, turns, lastEvent>>

\* lastEvent names what the last step did when it was a control command
\* (GmailClear, GmailStop, MessageClear, MessageStop, with the user who sent
\* it), a message of another user in a session thread (MessageForeign, with
\* its sender), a message in a session thread that the listener drops before
\* any lookup (MessageIgnored), the registration of a session under a free key, a key of
\* the same user or a key of another user (createSession, replaceSession,
\* takeOverSession, with the new owner) or a lookup whose idle sweep removed
\* a session ("sweep"), and the
\* owners of the sessions the step removed, or the final append of a turn
\* whose state object the map no longer holds (detachedAnswer, with the
\* turn's user); any other step sets it to Quiet.
Event(op, userId, ended) == [op |-> op, userId |-> userId, ended |-> ended]

Quiet == Event("none", NoUser, {})

ExpiredOwners(sess, t) == {sess[k].userId : k \in ExpiredKeys(sess, t)}

SweepEvent(sess, t) ==
  IF ExpiredKeys(sess, t) # {}
  THEN Event("sweep", NoUser, ExpiredOwners(sess, t))
  ELSE Quiet

NoResponse == [stop_reason |-> "none", content |-> <<>>]

NoPost == [kind |-> "none", visibility |-> "none"]

Post(kind, visibility) == [kind |-> kind, visibility |-> visibility]

IdleTask ==
  [pc |-> "idle", handler |-> "none", userId |-> NoUser, channelId |-> "none",
   threadTs |-> NoThread, request |-> "", state |-> NoState, messages |-> <<>>,
   response |-> NoResponse, toolIdx |-> 0, toolResults |-> <<>>,
   modelCalls |-> 0, calls |-> <<>>, post |-> NoPost, result |-> <<>>,
   error |-> ""]

Referenced(mem, tks, o) ==
  (\E u \in Users : mem[u] = o) \/ (\E t \in TaskIds : tks[t].state = o)

\* Objects no map entry and no task refers to are reclaimed.
Collect(hp, mem, tks) ==
  [o \in ObjIds |-> IF Referenced(mem, tks, o) THEN hp[o] ELSE FreeCell]

NewObj(mem, tks) ==
  CHOOSE o \in ObjIds :
    /\ ~Referenced(mem, tks, o)
    /\ \A p \in ObjIds : ~Referenced(mem, tks, p) => o <= p

\* Mutant: on a miss the user is given the state object of another user.
getConversationStateShared(mem, hp, tks, userId, t) ==
  LET swept == cleanupOldConversations(mem, hp, t)
      donors == {v \in Users : swept[v] # NoState}
      miss == swept[userId] = NoState
      obj == IF ~miss THEN swept[userId]
             ELSE IF donors # {} THEN swept[CHOOSE v \in donors : TRUE]
             ELSE NewObj(swept, tks)
      hp1 == IF miss /\ donors = {} THEN [hp EXCEPT ![obj] = NewConversationState(t)]
             ELSE hp
  IN [mem |-> [swept EXCEPT ![userId] = obj],
      heap |-> [hp1 EXCEPT ![obj].lastActivity = t],
      state |-> obj]

\* getConversationState: sweep, create on a miss, touch, return the object.
getConversationState(mem, hp, tks, userId, t) ==
  LET swept == cleanupOldConversations(mem, hp, t)
      miss == swept[userId] = NoState
      obj == IF miss THEN NewObj(swept, tks) ELSE swept[userId]
      hp1 == IF miss THEN [hp EXCEPT ![obj] = NewConversationState(t)] ELSE hp
  IN [mem |-> [swept EXCEPT ![userId] = obj],
      heap |-> [hp1 EXCEPT ![obj].lastActivity = t],
      state |-> obj]

Init ==
  /\ now = 0
  /\ conversationMemory = [u \in Users |-> NoState]
  /\ heap = [o \in ObjIds |-> FreeCell]
  /\ activeSessions = [k \in Keys |-> NoSession]
  /\ tasks = [t \in TaskIds |-> IdleTask]
  /\ turns = 0
  /\ lastEvent = Quiet

\* Time passes.
Tick(d) ==
  /\ (now + d) \div MEMORY_TIMEOUT_MS <= MaxPeriods
  /\ (now + d) % MEMORY_TIMEOUT_MS <= 1
  /\ now' = now + d
  /\ lastEvent' = Quiet
  /\ UNCHANGED <<conversationMemory, heap, activeSessions, tasks, turns>>

-----------------------------------------------------------------------------
(* Tool catalog and dispatcher: gmail-assistant.ts *)

\* The names of the tools array offered to the model.
ToolCatalog ==
  {"search_emails", "list_recent_emails", "get_email_details", "send_email",
   "mark_as_read", "trash_email", "create_label", "delete_label", "get_labels",
   "star_email", "unstar_email", "archive_email", "batch_star_emails",
   "batch_apply_label", "find_marketing_emails", "get_unsubscribe_info"}

\* Mutant: the switch has no case for the last tool of the catalog.
DispatcherCasesShort == ToolCatalog \ {"get_unsubscribe_info"}

\* The case labels of the switch in executeTool.
DispatcherCases ==
  {"search_emails", "list_recent_emails", "get_email_details", "send_email",
   "mark_as_read", "trash_email", "create_label", "delete_label", "get_labels",
   "star_email", "unstar_email", "archive_email", "batch_star_emails",
   "batch_apply_label", "find_marketing_emails", "get_unsubscribe_info"}

Min(a, b) == IF a < b THEN a ELSE b

\* (input.f as number) || dflt : absent and 0 are falsy.
NumberOr(input, field, dflt) ==
  IF Has(input, field) /\ input[field][1] # 0 THEN input[field][1] ELSE dflt

\* `${input.f}` : an absent field prints as undefined.
Shown(input, field) ==
  IF Has(input, field) THEN input[field][1] ELSE "undefined"

NoCount == 0 - 1

\* The Mailbox Service call a known tool makes: the gmail-client function and
\* the result count it asks for (NoCount where the call takes none).
MailboxRequest(name, input) ==
  CASE name = "search_emails" ->
         [op |-> "searchEmails", count |-> Min(NumberOr(input, "maxResults", 5), 10)]
    [] name = "list_recent_emails" ->
         [op |-> "listEmails", count |-> Min(NumberOr(input, "count", 5), 10)]
    [] name = "get_email_details" -> [op |-> "getEmail", count |-> NoCount]
    [] name = "send_email" -> [op |-> "sendEmail", count |-> NoCount]
    [] name = "mark_as_read" -> [op |-> "markAsRead", count |-> NoCount]
    [] name = "trash_email" -> [op |-> "trashEmail", count |-> NoCount]
    [] name = "create_label" -> [op |-> "createLabel", count |-> NoCount]
    [] name = "delete_label" -> [op |-> "deleteLabel", count |-> NoCount]
    [] name = "get_labels" -> [op |-> "getLabels", count |-> NoCount]
    [] name = "star_email" -> [op |-> "starEmail", count |-> NoCount]
    [] name = "unstar_email" -> [op |-> "unstarEmail", count |-> NoCount]
    [] name = "archive_email" -> [op |-> "archiveEmail", count |-> NoCount]
    [] name = "batch_star_emails" -> [op |-> "batchModifyEmails", count |-> NoCount]
    [] name = "batch_apply_label" -> [op |-> "batchModifyEmails", count |-> NoCount]
    [] name = "find_marketing_emails" ->
         [op |-> "findMarketingEmails", count |-> NumberOr(input, "maxResults", 10)]
    [] name = "get_unsubscribe_info" -> [op |-> "getUnsubscribeInfo", count |-> NoCount]

\* What callGmailApi comes back with: transport "fail" when fetch or
\* response.json() rejects; otherwise the JSON object, of which the model keeps
\* the success flag and the number of items (emails, labels, or 1 for a
\* present email / label) and, of an email, its body: <<>> when the field is
\* absent, <<characters>> when it is present.
Reply(transport, success, items) ==
  [transport |-> transport, success |-> success, items |-> items, body |-> <<>>]

\* { success: true, email: { ..., body } } of GET /api/emails/:id
EmailReply(body) == [Reply("ok", TRUE, 1) EXCEPT !.body = body]

Returned(str) == [throws |-> FALSE, text |-> str]

Thrown == [throws |-> TRUE, text |-> <<>>]

\* formatEmailListForSlack, one numbered block per item, blank line between.
RECURSIVE formatEmailListFrom(_, _)
formatEmailListFrom(i, n) ==
  IF i > n THEN <<>>
  ELSE <<"*", ToString(i), ". subject*", "\n", "   From: from", "\n",
         "   Date: date", "\n", "   ID: id">>
       \o (IF i < n THEN <<"\n\n">> ELSE <<>>)
       \o formatEmailListFrom(i + 1, n)

formatEmailListForSlack(n) ==
  IF n = 0 THEN <<"No emails found.">> ELSE formatEmailListFrom(1, n)

\* The length past which formatEmailForSlack cuts a body.
BodyLimit == 500

\* String.prototype.substring(from, to) on a sequence of characters.
Substring(str, from, to) == SubSeq(str, from + 1, Min(to, Len(str)))

\* Mutant: the body is cut as soon as it reaches the limit.
TruncatedBodyEager(body) ==
  IF Len(body) >= BodyLimit
  THEN Substring(body, 0, BodyLimit) \o <<".", ".", ".">>
  ELSE body

\* email.body.length > 500 ? email.body.substring(0, 500) + '...' : email.body
TruncatedBody(body) ==
  IF Len(body) > BodyLimit
  THEN Substring(body, 0, BodyLimit) \o <<".", ".", ".">>
  ELSE body

\* The four labelled lines of formatEmailForSlack joined by newlines, up to
\* the newline that precedes the last line.
EmailHeader ==
  <<"*Subject:* subject", "\n", "*From:* from", "\n", "*Date:* date", "\n",
    "*ID:* id", "\n">>

\* formatEmailForSlack: the header, then the body cut at the limit when
\* includeBody is set and email.body is truthy (present and not empty), or
\* the snippet line.
formatEmailForSlack(email, includeBody) ==
  EmailHeader \o
    (IF includeBody /\ email.body # <<>> /\ email.body[1] # <<>>
     THEN <<"\n>>> ">> \o TruncatedBody(email.body[1])
     ELSE <<"\n_", "snippet", "_">>)

\* Mutant: a Mailbox call that comes back without success is raised as an
\* error.
ToolOutcomeRejecting(name, input, reply) ==
  IF reply.transport = "fail" \/ ~reply.success THEN Thrown
  ELSE Returned(<<"done">>)

\* The rest of a case of executeTool once its Mailbox call has settled: the
\* string it returns, or the error it throws.
ToolOutcome(name, input, reply) ==
  IF reply.transport = "fail" THEN Thrown
  ELSE
  CASE name = "search_emails" ->
         IF reply.items = 0 THEN Returned(<<"No emails found matching your search.">>)
         ELSE Returned(formatEmailListForSlack(reply.items))
    [] name = "list_recent_emails" ->
         IF reply.items = 0 THEN Returned(<<"No emails found.">>)
         ELSE Returned(formatEmailListForSlack(reply.items))
    [] name = "get_email_details" ->
         IF reply.items = 0
         THEN Returned(<<"Email not found with ID: ", Shown(input, "messageId")>>)
         ELSE Returned(formatEmailForSlack([body |-> reply.body], TRUE))
    [] name = "send_email" ->
         IF reply.success
         THEN Returned(<<"Email sent successfully to ", Shown(input, "to")>>)
         ELSE Returned(<<"Failed to send email: ", "error">>)
    [] name = "mark_as_read" ->
         IF reply.success
         THEN Returned(<<"Email marked as read: ", Shown(input, "messageId")>>)
         ELSE Returned(<<"Failed to mark email as read">>)
    [] name = "trash_email" ->
         IF reply.success
         THEN Returned(<<"Email moved to trash: ", Shown(input, "messageId")>>)
         ELSE Returned(<<"Failed to trash email">>)
    [] name = "create_label" ->
         IF reply.success
         THEN Returned(<<"Label created: ", Shown(input, "name"), " (ID: ", "id", ")">>)
         ELSE Returned(<<"Failed to create label">>)
    [] name = "delete_label" ->
         IF reply.success THEN Returned(<<"Label deleted">>)
         ELSE Returned(<<"Failed to delete label">>)
    [] name = "get_labels" ->
         IF reply.items = 0 THEN Returned(<<"No labels found.">>)
         ELSE Returned(<<"*Your Labels:*", "\n", "labels">>)
    [] name = "star_email" ->
         IF reply.success
         THEN Returned(<<"Email starred: ", Shown(input, "messageId")>>)
         ELSE Returned(<<"Failed to star email">>)
    [] name = "unstar_email" ->
         IF reply.success
         THEN Returned(<<"Star removed from email: ", Shown(input, "messageId")>>)
         ELSE Returned(<<"Failed to unstar email">>)
    [] name = "archive_email" ->
         IF reply.success
         THEN Returned(<<"Email archived: ", Shown(input, "messageId")>>)
         ELSE Returned(<<"Failed to archive email">>)
    [] name = "batch_star_emails" ->
         \* messageIds.length of an absent messageIds is a TypeError
         IF reply.success
         THEN IF Has(input, "messageIds")
              THEN Returned(<<"Starred ", ToString(Len(input.messageIds[1])), " emails">>)
              ELSE Thrown
         ELSE Returned(<<"Failed to star emails">>)
    [] name = "batch_apply_label" ->
         IF reply.success
         THEN IF Has(input, "messageIds")
              THEN Returned(<<"Applied label to ", ToString(Len(input.messageIds[1])), " emails">>)
              ELSE Thrown
         ELSE Returned(<<"Failed to apply label">>)
    [] name = "find_marketing_emails" ->
         IF reply.items = 0 THEN Returned(<<"No marketing emails found.">>)
         ELSE Returned(<<"*Found ", ToString(reply.items), " marketing/promotional emails:*">>)
    [] name = "get_unsubscribe_info" ->
         IF reply.success THEN Returned(<<"*Unsubscribe Info for:* ", "subject">>)
         ELSE Returned(<<"Could not get unsubscribe info for email: ",
                         Shown(input, "messageId")>>)

\* Mutant: the diagnostic does not name the tool.
UnknownToolUnnamed(name) == <<"Unknown tool">>

\* default: return "Unknown tool: " + name
UnknownToolResult(name) == <<"Unknown tool: ", name>>

-----------------------------------------------------------------------------
(* Agentic loop: processNaturalLanguageRequest *)

ToolUseBlocks(response) ==
  SelectSeq(response.content, LAMBDA b : b.type = "tool_use")

TextBlocks(response) ==
  SelectSeq(response.content, LAMBDA b : b.type = "text")

\* textBlocks.map(b => b.text).join('\n')
RECURSIVE JoinText(_)
JoinText(blocks) ==
  IF Len(blocks) = 0 THEN <<>>
  ELSE IF Len(blocks) = 1 THEN blocks[1].text
  ELSE blocks[1].text \o <<"\n">> \o JoinText(Tail(blocks))

\* Mutant: an empty joined text is returned as it is.
FinalResponseNoFallback(response) == JoinText(TextBlocks(response))

\* joined text || fallback : the empty string is falsy.
FinalResponse(response) ==
  LET joined == JoinText(TextBlocks(response)) IN
  IF joined = <<>> THEN FALLBACK_RESPONSE ELSE joined

\* Mutant: the diagnostic of an unknown tool is put in front of the results
\* gathered so far.
RECURSIVE RunToolsPrepending(_)
RunToolsPrepending(task) ==
  LET blocks == ToolUseBlocks(task.response)
      i == task.toolIdx
  IN IF i > Len(blocks)
     THEN [task EXCEPT
             !.messages = @ \o <<BlockMessage("assistant", task.response.content),
                                 BlockMessage("user", task.toolResults)>>,
             !.pc = "model",
             !.modelCalls = @ + 1]
     ELSE IF blocks[i].name \notin DispatcherCases
     THEN RunToolsPrepending(
            [task EXCEPT
               !.toolResults =
                  <<ToolResultBlock(blocks[i].id, UnknownToolResult(blocks[i].name))>> \o @,
               !.toolIdx = i + 1])
     ELSE [task EXCEPT
             !.pc = "tool",
             !.calls = Append(@, MailboxRequest(blocks[i].name, blocks[i].input))]

\* Mutant: a known tool issues its Mailbox call twice.
RECURSIVE RunToolsCallingTwice(_)
RunToolsCallingTwice(task) ==
  LET blocks == ToolUseBlocks(task.response)
      i == task.toolIdx
  IN IF i > Len(blocks)
     THEN [task EXCEPT
             !.messages = @ \o <<BlockMessage("assistant", task.response.content),
                                 BlockMessage("user", task.toolResults)>>,
             !.pc = "model",
             !.modelCalls = @ + 1]
     ELSE IF blocks[i].name \notin DispatcherCases
     THEN RunToolsCallingTwice(
            [task EXCEPT
               !.toolResults =
                  Append(@, ToolResultBlock(blocks[i].id,
                                            UnknownToolResult(blocks[i].name))),
               !.toolIdx = i + 1])
     ELSE [task EXCEPT
             !.pc = "tool",
             !.calls = @ \o <<MailboxRequest(blocks[i].name, blocks[i].input),
                              MailboxRequest(blocks[i].name, blocks[i].input)>>]

\* Mutant: the loop gives up after its first round of tools and returns the
\* fallback text.
RECURSIVE RunToolsCapped(_)
RunToolsCapped(task) ==
  LET blocks == ToolUseBlocks(task.response)
      i == task.toolIdx
  IN IF i > Len(blocks)
     THEN [task EXCEPT !.pc = "replying", !.state = NoState,
                       !.result = FALLBACK_RESPONSE]
     ELSE IF blocks[i].name \notin DispatcherCases
     THEN RunToolsCapped(
            [task EXCEPT
               !.toolResults =
                  Append(@, ToolResultBlock(blocks[i].id,
                                            UnknownToolResult(blocks[i].name))),
               !.toolIdx = i + 1])
     ELSE [task EXCEPT
             !.pc = "tool",
             !.calls = Append(@, MailboxRequest(blocks[i].name, blocks[i].input))]

\* The for loop over toolUseBlocks from index task.toolIdx up to the next
\* await that suspends: an unknown tool returns its diagnostic without any
\* external call; a known tool issues its Mailbox call and the task waits;
\* past the last block the exchange is pushed on the working list and the
\* next model call is issued.
RECURSIVE RunTools(_)
RunTools(task) ==
  LET blocks == ToolUseBlocks(task.response)
      i == task.toolIdx
  IN IF i > Len(blocks)
     THEN [task EXCEPT
             !.messages = @ \o <<BlockMessage("assistant", task.response.content),
                                 BlockMessage("user", task.toolResults)>>,
             !.pc = "model",
             !.modelCalls = @ + 1]
     ELSE IF blocks[i].name \notin DispatcherCases
     THEN RunTools([task EXCEPT
                      !.toolResults =
                         Append(@, ToolResultBlock(blocks[i].id,
                                                   UnknownToolResult(blocks[i].name))),
                      !.toolIdx = i + 1])
     ELSE [task EXCEPT
             !.pc = "tool",
             !.calls = Append(@, MailboxRequest(blocks[i].name, blocks[i].input))]

\* Where the handler posts: respond() of a slash command is ephemeral,
\* chat.postMessage / chat.update of the message listener is in the thread.
Visibility(handler) == IF handler = "command" THEN "ephemeral" ELSE "thread"

\* Mutant: the catch records the error and leaves the placeholder in place.
HandlerCatchSilent(task, errorMsg) ==
  [task EXCEPT !.pc = "replying", !.state = NoState, !.error = errorMsg]

\* catch (error) of the calling handler: the placeholder becomes the error line.
HandlerCatch(task, errorMsg) ==
  [task EXCEPT !.pc = "replying", !.state = NoState, !.error = errorMsg,
               !.post = Post("error", Visibility(task.handler))]

\* The handler has its result: the placeholder becomes the answer.
HandlerAnswer(task, finalResponse) ==
  [task EXCEPT !.pc = "replying", !.state = NoState, !.result = finalResponse,
               !.post = Post("answer", Visibility(task.handler))]

-----------------------------------------------------------------------------
(* Actions *)

ClearWords == {"clear", "reset", "start over"}

CommandStopWords == {"stop", "done"}

MessageStopWords == {"stop", "done", "end"}

Commit(mem, hp, sess, tks) ==
  /\ conversationMemory' = mem
  /\ activeSessions' = sess
  /\ tasks' = tks
  /\ heap' = Collect(hp, mem, tks)

\* A new handler invocation takes the lowest free slot.
Free(t) ==
  /\ tasks[t].pc = "idle"
  /\ \A p \in TaskIds : tasks[p].pc = "idle" => t <= p

Started(handler, userId, channelId, threadTs, request) ==
  [IdleTask EXCEPT !.handler = handler, !.userId = userId,
                   !.channelId = channelId, !.threadTs = threadTs,
                   !.request = request]

\* /gmail clear | reset | start over
GmailClear(userId, channelId, raw) ==
  LET request == Trim(raw) IN
  /\ ToLowerCase(request) \in ClearWords
  /\ Commit(clearConversation(conversationMemory, userId), heap, activeSessions,
            tasks)
  /\ lastEvent' = Event("GmailClear", userId, {})
  /\ UNCHANGED <<now, turns>>

\* /gmail start, up to the await of chat.postMessage
GmailStart(t, userId, channelId, raw) ==
  LET request == Trim(raw) IN
  /\ Free(t)
  /\ ToLowerCase(request) \notin ClearWords
  /\ ToLowerCase(request) = "start"
  /\ Commit(conversationMemory, heap, activeSessions,
            [tasks EXCEPT ![t] =
               [Started("command", userId, channelId, NoThread, request)
                  EXCEPT !.pc = "startPosting",
                         !.post = Post("sessionStarted", "channel")]])
  /\ lastEvent' = Quiet
  /\ UNCHANGED <<now, turns>>

\* chat.postMessage of /gmail start resolves with the ts of the new message.
StartPosted(t, ts) ==
  /\ tasks[t].pc = "startPosting"
  /\ Commit(conversationMemory, heap,
            createSession(activeSessions, tasks[t].userId, tasks[t].channelId, ts, now),
            [tasks EXCEPT ![t] = IdleTask])
  /\ lastEvent' =
       LET key == getSessionKey(tasks[t].channelId, ts) IN
       Event(IF ~HasSession(activeSessions, key) THEN "createSession"
             ELSE IF activeSessions[key].userId = tasks[t].userId THEN "replaceSession"
             ELSE "takeOverSession",
             tasks[t].userId, {})
  /\ UNCHANGED <<now, turns>>

\* /gmail stop | done
GmailStop(userId, channelId, raw) ==
  LET request == Trim(raw) IN
  /\ ToLowerCase(request) \notin ClearWords \cup {"start"}
  /\ ToLowerCase(request) \in CommandStopWords
  /\ Commit(clearConversation(conversationMemory, userId), heap, activeSessions,
            tasks)
  /\ lastEvent' = Event("GmailStop", userId, {})
  /\ UNCHANGED <<now, turns>>

\* /gmail with an empty text: the usage message
GmailHelp(userId, channelId, raw) ==
  /\ Trim(raw) = ""
  /\ UNCHANGED vars

\* /gmail <request>, up to the await of the "Processing" placeholder
GmailRequest(t, userId, channelId, raw, cap) ==
  LET request == Trim(raw) IN
  /\ Free(t)
  /\ turns < cap
  /\ ToLowerCase(request) \notin ClearWords \cup {"start"} \cup CommandStopWords
  /\ request # ""
  /\ Commit(conversationMemory, heap, activeSessions,
            [tasks EXCEPT ![t] =
               [Started("command", userId, channelId, NoThread, request)
                  EXCEPT !.pc = "placeholder",
                         !.post = Post("processing", "ephemeral")]])
  /\ turns' = turns + 1
  /\ lastEvent' = Quiet
  /\ UNCHANGED now

\* app.message returning before any lookup: a message outside a thread or
\* with an empty text.
MessageIgnored(userId, channelId, threadTs, raw) ==
  /\ threadTs = NoThread \/ Trim(raw) = ""
  /\ lastEvent' = IF HasSession(activeSessions, getSessionKey(channelId, threadTs))
                  THEN Event("MessageIgnored", userId, {})
                  ELSE lastEvent
  /\ UNCHANGED <<now, conversationMemory, heap, activeSessions, tasks, turns>>

\* Mutant: a message in a thread without a session starts one for its
\* author.
MessageNoSessionStarts(userId, channelId, threadTs, raw) ==
  LET got == getSession(activeSessions, conversationMemory, channelId, threadTs, now) IN
  /\ threadTs # NoThread /\ Trim(raw) # ""
  /\ got.result = NoSession
  /\ Commit(got.mem, heap,
            createSession(got.sessions, userId, channelId, threadTs, now), tasks)
  /\ lastEvent' = SweepEvent(activeSessions, now)
  /\ UNCHANGED <<now, turns>>

\* app.message in a thread that has no active session: only the sweep of
\* getSession acts.
MessageNoSession(userId, channelId, threadTs, raw) ==
  LET got == getSession(activeSessions, conversationMemory, channelId, threadTs, now) IN
  /\ threadTs # NoThread /\ Trim(raw) # ""
  /\ got.result = NoSession
  /\ Commit(got.mem, heap, got.sessions, tasks)
  /\ lastEvent' = SweepEvent(activeSessions, now)
  /\ UNCHANGED <<now, turns>>

\* Mutant: the stop of any user in the session thread ends the session.
MessageForeignObeyed(userId, channelId, threadTs, raw) ==
  LET got == getSession(activeSessions, conversationMemory, channelId, threadTs, now)
      ended == IF ToLowerCase(Trim(raw)) \in {"stop", "done", "end"}
               THEN endSession(got.sessions, got.mem, channelId, threadTs)
               ELSE got
  IN
  /\ threadTs # NoThread /\ Trim(raw) # ""
  /\ got.result # NoSession
  /\ got.result.userId # userId
  /\ Commit(ended.mem, heap, ended.sessions, tasks)
  /\ lastEvent' = Event("MessageForeign", userId, ExpiredOwners(activeSessions, now))
  /\ UNCHANGED <<now, turns>>

\* app.message in a session thread from a user who did not start it.
MessageForeign(userId, channelId, threadTs, raw) ==
  LET got == getSession(activeSessions, conversationMemory, channelId, threadTs, now) IN
  /\ threadTs # NoThread /\ Trim(raw) # ""
  /\ got.result # NoSession
  /\ got.result.userId # userId
  /\ Commit(got.mem, heap, got.sessions, tasks)
  /\ lastEvent' = Event("MessageForeign", userId, ExpiredOwners(activeSessions, now))
  /\ UNCHANGED <<now, turns>>

\* stop | done | end in the session thread
MessageStop(userId, channelId, threadTs, raw) ==
  LET text == Trim(raw)
      got == getSession(activeSessions, conversationMemory, channelId, threadTs, now)
      ended == endSession(got.sessions, got.mem, channelId, threadTs)
  IN
  /\ threadTs # NoThread /\ text # ""
  /\ got.result # NoSession
  /\ got.result.userId = userId
  /\ ToLowerCase(text) \in MessageStopWords
  /\ Commit(ended.mem, heap, ended.sessions, tasks)
  /\ lastEvent' = Event("MessageStop", userId,
                         ExpiredOwners(activeSessions, now) \cup {userId})
  /\ UNCHANGED <<now, turns>>

\* Mutant: a clear in the session thread ends the session as a stop does.
MessageClearEnds(userId, channelId, threadTs, raw) ==
  LET text == Trim(raw)
      got == getSession(activeSessions, conversationMemory, channelId, threadTs, now)
      ended == endSession(got.sessions, got.mem, channelId, threadTs)
  IN
  /\ threadTs # NoThread /\ text # ""
  /\ got.result # NoSession
  /\ got.result.userId = userId
  /\ ToLowerCase(text) \notin MessageStopWords
  /\ ToLowerCase(text) \in ClearWords
  /\ Commit(ended.mem, heap, ended.sessions, tasks)
  /\ lastEvent' = Event("MessageClear", userId,
                         ExpiredOwners(activeSessions, now))
  /\ UNCHANGED <<now, turns>>

\* clear | reset | start over in the session thread
MessageClear(userId, channelId, threadTs, raw) ==
  LET text == Trim(raw)
      got == getSession(activeSessions, conversationMemory, channelId, threadTs, now)
  IN
  /\ threadTs # NoThread /\ text # ""
  /\ got.result # NoSession
  /\ got.result.userId = userId
  /\ ToLowerCase(text) \notin MessageStopWords
  /\ ToLowerCase(text) \in ClearWords
  /\ Commit(clearConversation(got.mem, userId), heap, got.sessions, tasks)
  /\ lastEvent' = Event("MessageClear", userId,
                         ExpiredOwners(activeSessions, now))
  /\ UNCHANGED <<now, turns>>

\* any other text in the session thread, up to the await of the
\* "Processing" placeholder
MessageRequest(t, userId, channelId, threadTs, raw, cap) ==
  LET text == Trim(raw)
      got == getSession(activeSessions, conversationMemory, channelId, threadTs, now)
  IN
  /\ Free(t)
  /\ turns < cap
  /\ threadTs # NoThread /\ text # ""
  /\ got.result # NoSession
  /\ got.result.userId = userId
  /\ ToLowerCase(text) \notin MessageStopWords \cup ClearWords
  /\ Commit(got.mem, heap, got.sessions,
            [tasks EXCEPT ![t] =
               [Started("message", userId, channelId, threadTs, text)
                  EXCEPT !.pc = "placeholder",
                         !.post = Post("processing", "thread")]])
  /\ turns' = turns + 1
  /\ lastEvent' = SweepEvent(activeSessions, now)
  /\ UNCHANGED now

\* The placeholder is posted and processNaturalLanguageRequest runs up to
\* its first model call: get or create the state, push the user message,
\* trim, copy the history into the working list.
BeginTurn(t) ==
  LET task == tasks[t]
      got == getConversationState(conversationMemory, heap, tasks, task.userId, now)
      hp == [got.heap EXCEPT ![got.state] =
               PushMessage(@, TextMessage("user", StrOf(task.request)))]
      tks == [tasks EXCEPT ![t] =
                [task EXCEPT !.pc = "model", !.state = got.state,
                             !.messages = hp[got.state].messages,
                             !.modelCalls = 1]]
  IN
  /\ task.pc = "placeholder"
  /\ Commit(got.mem, hp, activeSessions, tks)
  /\ lastEvent' = Quiet
  /\ UNCHANGED <<now, turns>>

\* Mutant: a failed model call takes the turn's user entry back out of the
\* history.
ModelFailsRollingBack(t) ==
  LET task == tasks[t]
      hp == [heap EXCEPT ![task.state].messages = SubSeq(@, 1, Len(@) - 1)]
  IN
  /\ task.pc = "model"
  /\ Commit(conversationMemory, hp, activeSessions,
            [tasks EXCEPT ![t] = HandlerCatch(@, "model call failed")])
  /\ lastEvent' = Quiet
  /\ UNCHANGED <<now, turns>>

\* anthropic.messages.create rejects: the error leaves
\* processNaturalLanguageRequest and reaches the handler's catch.
ModelFails(t) ==
  /\ tasks[t].pc = "model"
  /\ Commit(conversationMemory, heap, activeSessions,
            [tasks EXCEPT ![t] = HandlerCatch(@, "model call failed")])
  /\ lastEvent' = Quiet
  /\ UNCHANGED <<now, turns>>

\* The model answers with stop_reason tool_use: the tool loop starts.
ModelRequestsTools(t, response) ==
  /\ tasks[t].pc = "model"
  /\ response.stop_reason = "tool_use"
  /\ tasks[t].modelCalls < MaxModelCalls
  /\ Commit(conversationMemory, heap, activeSessions,
            [tasks EXCEPT ![t] =
               RunTools([@ EXCEPT !.response = response, !.toolIdx = 1,
                                  !.toolResults = <<>>])])
  /\ lastEvent' = Quiet
  /\ UNCHANGED <<now, turns>>

\* Mutant: the turn writes back the copy of the history it took when it
\* began, with its answer appended.
ModelAnswersWritingBack(t, response) ==
  LET task == tasks[t]
      finalResponse == FinalResponse(response)
      m == TextMessage("assistant", finalResponse)
      hp == [heap EXCEPT ![task.state].messages = TrimHistory(Append(task.messages, m)),
                         ![task.state].pushed = Append(@, m)]
  IN
  /\ task.pc = "model"
  /\ response.stop_reason # "tool_use"
  /\ Commit(conversationMemory, hp, activeSessions,
            [tasks EXCEPT ![t] =
               HandlerAnswer([task EXCEPT !.response = response], finalResponse)])
  /\ lastEvent' = Quiet
  /\ UNCHANGED <<now, turns>>

\* Mutant: a final response that holds tool requests has them executed.
ModelAnswersRunningTools(t, response) ==
  LET task == tasks[t]
      finalResponse == FinalResponse(response)
      hp == [heap EXCEPT ![task.state] =
               PushMessage(@, TextMessage("assistant", finalResponse))]
  IN
  /\ task.pc = "model"
  /\ response.stop_reason # "tool_use"
  /\ IF ToolUseBlocks(response) # <<>>
     THEN Commit(conversationMemory, heap, activeSessions,
                 [tasks EXCEPT ![t] =
                    RunTools([task EXCEPT !.response = response, !.toolIdx = 1,
                                          !.toolResults = <<>>])])
     ELSE Commit(conversationMemory, hp, activeSessions,
                 [tasks EXCEPT ![t] =
                    HandlerAnswer([task EXCEPT !.response = response], finalResponse)])
  /\ lastEvent' = Quiet
  /\ UNCHANGED <<now, turns>>

\* Mutant: a turn whose state object has left the map registers the object
\* again when it appends its answer.
ModelAnswersRestoring(t, response) ==
  LET task == tasks[t]
      finalResponse == FinalResponse(response)
      hp == [heap EXCEPT ![task.state] =
               PushMessage(@, TextMessage("assistant", finalResponse))]
  IN
  /\ task.pc = "model"
  /\ response.stop_reason # "tool_use"
  /\ Commit([conversationMemory EXCEPT ![task.userId] = task.state], hp,
            activeSessions,
            [tasks EXCEPT ![t] =
               HandlerAnswer([task EXCEPT !.response = response], finalResponse)])
  /\ lastEvent' = IF conversationMemory[task.userId] = task.state THEN Quiet
                  ELSE Event("detachedAnswer", task.userId, {})
  /\ UNCHANGED <<now, turns>>

\* Mutant: the final text is pushed on the state the map holds for the user
\* when the answer arrives, not on the object the turn holds.
ModelAnswersLooksUp(t, response) ==
  LET task == tasks[t]
      finalResponse == FinalResponse(response)
      cur == conversationMemory[task.userId]
      hp == IF cur = NoState THEN heap
            ELSE [heap EXCEPT ![cur] =
                    PushMessage(@, TextMessage("assistant", finalResponse))]
  IN
  /\ task.pc = "model"
  /\ response.stop_reason # "tool_use"
  /\ Commit(conversationMemory, hp, activeSessions,
            [tasks EXCEPT ![t] =
               HandlerAnswer([task EXCEPT !.response = response], finalResponse)])
  /\ lastEvent' = Quiet
  /\ UNCHANGED <<now, turns>>

\* Mutant: an answer waits for the answers of the turns that began earlier
\* on the same state.
ModelAnswersInOrder(t, response) ==
  LET task == tasks[t]
      finalResponse == FinalResponse(response)
      hp == [heap EXCEPT ![task.state] =
               PushMessage(@, TextMessage("assistant", finalResponse))]
  IN
  /\ task.pc = "model"
  /\ response.stop_reason # "tool_use"
  /\ \A p \in TaskIds \ {t} :
       (tasks[p].pc = "model" /\ tasks[p].state = task.state) =>
         Len(tasks[p].messages) >= Len(task.messages)
  /\ Commit(conversationMemory, hp, activeSessions,
            [tasks EXCEPT ![t] =
               HandlerAnswer([task EXCEPT !.response = response], finalResponse)])
  /\ lastEvent' = Quiet
  /\ UNCHANGED <<now, turns>>

\* The model answers with another stop reason: the final text is pushed on
\* the state object the turn holds, the history trimmed, the answer posted.
ModelAnswers(t, response) ==
  LET task == tasks[t]
      finalResponse == FinalResponse(response)
      hp == [heap EXCEPT ![task.state] =
               PushMessage(@, TextMessage("assistant", finalResponse))]
  IN
  /\ task.pc = "model"
  /\ response.stop_reason # "tool_use"
  /\ Commit(conversationMemory, hp, activeSessions,
            [tasks EXCEPT ![t] =
               HandlerAnswer([task EXCEPT !.response = response], finalResponse)])
  /\ lastEvent' = IF conversationMemory[task.userId] = task.state THEN Quiet
                  ELSE Event("detachedAnswer", task.userId, {})
  /\ UNCHANGED <<now, turns>>

CurrentToolUse(task) == ToolUseBlocks(task.response)[task.toolIdx]

\* The Mailbox call of the current tool settles and executeTool returns a
\* string: it is paired with the request's id and the loop goes on.
ToolReturns(t, reply) ==
  LET task == tasks[t]
      toolUse == CurrentToolUse(task)
      outcome == ToolOutcome(toolUse.name, toolUse.input, reply)
  IN
  /\ task.pc = "tool"
  /\ ~outcome.throws
  /\ Commit(conversationMemory, heap, activeSessions,
            [tasks EXCEPT ![t] =
               RunTools([task EXCEPT
                           !.toolResults =
                              Append(@, ToolResultBlock(toolUse.id, outcome.text)),
                           !.toolIdx = @ + 1])])
  /\ lastEvent' = Quiet
  /\ UNCHANGED <<now, turns>>

\* The Mailbox call rejects, or the code after it throws: executeTool has no
\* try/catch, so the error reaches the handler's catch.
ToolThrows(t, reply) ==
  LET task == tasks[t]
      toolUse == CurrentToolUse(task)
      outcome == ToolOutcome(toolUse.name, toolUse.input, reply)
  IN
  /\ task.pc = "tool"
  /\ outcome.throws
  /\ Commit(conversationMemory, heap, activeSessions,
            [tasks EXCEPT ![t] = HandlerCatch(task, "tool execution failed")])
  /\ lastEvent' = Quiet
  /\ UNCHANGED <<now, turns>>

\* The respond / chat.update that replaces the placeholder resolves and the
\* handler returns.
HandlerReturns(t) ==
  /\ tasks[t].pc = "replying"
  /\ Commit(conversationMemory, heap, activeSessions,
            [tasks EXCEPT ![t] = IdleTask])
  /\ lastEvent' = Quiet
  /\ UNCHANGED <<now, turns>>

-----------------------------------------------------------------------------
(* Inputs *)

CommandTexts == {"", " CLEAR ", "start", "stop", "show unread"}

MessageTexts == {"clear", " Stop ", "show unread"}

TickSteps == {1, MEMORY_TIMEOUT_MS}

SendArgs ==
  [NoArgs EXCEPT !.to = <<"bob@example.com">>, !.subject = <<"hi">>,
                 !.body = <<"hello">>]

ResponseText == [stop_reason |-> "end_turn", content |-> <<TextBlock("Here you go")>>]

ResponseEmpty == [stop_reason |-> "end_turn", content |-> <<>>]

ResponseUnknownTool ==
  [stop_reason |-> "tool_use",
   content |-> <<ToolUseBlock("tu1", "summarize_inbox", NoArgs)>>]

ResponseSend ==
  [stop_reason |-> "tool_use",
   content |-> <<TextBlock("Sending"), ToolUseBlock("tu1", "send_email", SendArgs)>>]

ResponseUnknownThenBatch ==
  [stop_reason |-> "tool_use",
   content |-> <<ToolUseBlock("tu1", "summarize_inbox", NoArgs),
                 ToolUseBlock("tu2", "batch_star_emails", NoArgs)>>]

ResponseTwoTools ==
  [stop_reason |-> "tool_use",
   content |-> <<ToolUseBlock("tu1", "trash_email", [NoArgs EXCEPT !.messageId = <<"m1">>]),
                 ToolUseBlock("tu2", "summarize_inbox", NoArgs),
                 ToolUseBlock("tu3", "list_recent_emails", NoArgs)>>]

ResponseTwoTexts ==
  [stop_reason |-> "end_turn",
   content |-> <<TextBlock("You have 2 unread emails."), TextBlock("Anything else?")>>]

ResponseBlankText == [stop_reason |-> "end_turn", content |-> <<TextBlock("")>>]

\* Result counts outside the documented range: 0, above 10, negative.
ResponseCounts ==
  [stop_reason |-> "tool_use",
   content |-> <<ToolUseBlock("tu1", "search_emails",
                              [NoArgs EXCEPT !.query = <<"is:unread">>, !.maxResults = <<0>>]),
                 ToolUseBlock("tu2", "list_recent_emails", [NoArgs EXCEPT !.count = <<50>>]),
                 ToolUseBlock("tu3", "list_recent_emails", [NoArgs EXCEPT !.count = <<0 - 3>>])>>]

Responses ==
  {ResponseText, ResponseEmpty, ResponseUnknownTool, ResponseSend,
   ResponseUnknownThenBatch, ResponseTwoTools, ResponseCounts,
   ResponseTwoTexts, ResponseBlankText}

\* A body of n characters, each one distinct.
Body(n) == [i \in 1 .. n |-> ToString(i)]

\* Body lengths around the limit of formatEmailForSlack.
BodyLengths ==
  {0, 1, BodyLimit - 1, BodyLimit, BodyLimit + 1, BodyLimit + 3, BodyLimit + 4,
   2 * BodyLimit}

\* The emails GET /api/emails/:id can answer with: without a body, or with a
\* body of one of the lengths.
EmailReplies == {EmailReply(<<>>)} \cup {EmailReply(<<Body(n)>>) : n \in BodyLengths}

\* The model asks for two emails.
ResponseDetails ==
  [stop_reason |-> "tool_use",
   content |-> <<ToolUseBlock("tu1", "get_email_details", [NoArgs EXCEPT !.messageId = <<"m1">>]),
                 ToolUseBlock("tu2", "get_email_details", [NoArgs EXCEPT !.messageId = <<"m2">>])>>]

\* Arguments naming one message, one label and a batch of two messages.
ToolArgs ==
  [SendArgs EXCEPT !.query = <<"is:unread">>, !.messageId = <<"m1">>,
                   !.name = <<"Receipts">>, !.labelId = <<"L1">>,
                   !.messageIds = <<<<"m1", "m2">>>>]

\* The model asks for one tool of the catalog.
ResponseTool(name) ==
  [stop_reason |-> "tool_use", content |-> <<ToolUseBlock("tu1", name, ToolArgs)>>]

ToolResponses == {ResponseTool(name) : name \in ToolCatalog}

\* find_marketing_emails with maxResults absent, 0, negative and above 10.
ResponseMarketing ==
  [stop_reason |-> "tool_use",
   content |-> <<ToolUseBlock("tu1", "find_marketing_emails", NoArgs),
                 ToolUseBlock("tu2", "find_marketing_emails",
                              [NoArgs EXCEPT !.maxResults = <<0>>]),
                 ToolUseBlock("tu3", "find_marketing_emails",
                              [NoArgs EXCEPT !.maxResults = <<0 - 3>>]),
                 ToolUseBlock("tu4", "find_marketing_emails",
                              [NoArgs EXCEPT !.maxResults = <<50>>])>>]

\* A response cut short: it holds a tool request but its stop reason is not
\* tool_use.
ResponseStopped ==
  [stop_reason |-> "max_tokens",
   content |-> <<TextBlock("Let me send that"),
                 ToolUseBlock("tu1", "send_email", SendArgs)>>]

\* A response whose stop reason is tool_use and that holds no tool request.
ResponseNoRequest ==
  [stop_reason |-> "tool_use", content |-> <<TextBlock("One moment")>>]

Replies ==
  {Reply("fail", FALSE, 0), Reply("ok", TRUE, 1), Reply("ok", FALSE, 0)}

-----------------------------------------------------------------------------
(* Specification *)

\* /gmail commands of the users in `users` with the texts in `texts`
Commands(users, texts, slots, cap) ==
  \E u \in users, c \in Channels, raw \in texts :
    \/ GmailClear(u, c, raw)
    \/ GmailStop(u, c, raw)
    \/ GmailHelp(u, c, raw)
    \/ \E t \in slots :
         \/ GmailStart(t, u, c, raw)
         \/ GmailRequest(t, u, c, raw, cap)

\* chat messages of the users in `users`, in a thread of `threads` or in none
Messages(users, threads, texts, slots, cap) ==
  \E u \in users, c \in Channels, th \in threads \cup {NoThread}, raw \in texts :
    \/ MessageIgnored(u, c, th, raw)
    \/ MessageNoSession(u, c, th, raw)
    \/ MessageForeign(u, c, th, raw)
    \/ MessageStop(u, c, th, raw)
    \/ MessageClear(u, c, th, raw)
    \/ \E t \in slots : MessageRequest(t, u, c, th, raw, cap)

\* the external calls of the handlers in flight settle
Settles(slots, threads, responses, replies) ==
  \E t \in slots :
    \/ \E ts \in threads : StartPosted(t, ts)
    \/ BeginTurn(t)
    \/ ModelFails(t)
    \/ \E response \in responses :
         \/ ModelRequestsTools(t, response)
         \/ ModelAnswers(t, response)
    \/ \E reply \in replies :
         \/ ToolReturns(t, reply)
         \/ ToolThrows(t, reply)
    \/ HandlerReturns(t)

Next ==
  \/ \E d \in TickSteps : Tick(d)
  \/ Commands({"U1"}, CommandTexts, {1}, MaxTurns)
  \/ Commands({"U2"}, {"show unread"}, {1}, MaxTurns)
  \/ Messages(Users, Threads, MessageTexts, {1}, MaxTurns)
  \/ Settles({1}, Threads, {ResponseText, ResponseSend},
             {Reply("fail", FALSE, 0), Reply("ok", TRUE, 1)})

Spec == Init /\ [][Next]_vars

\* One user, one handler at a time, many turns: histories long enough to
\* be trimmed, with clears, a thread session and idle expiry in between.
NextHistory ==
  \/ \E d \in TickSteps : Tick(d)
  \/ \E raw \in {" CLEAR ", "start", "show unread"} :
       \/ GmailClear("U1", "C1", raw)
       \/ GmailStart(1, "U1", "C1", raw)
       \/ GmailRequest(1, "U1", "C1", raw, MaxTurnsLong)
  \/ StartPosted(1, "T1")
  \/ \E raw \in {" Stop ", "show unread"} :
       \/ MessageNoSession("U1", "C1", "T1", raw)
       \/ MessageStop("U1", "C1", "T1", raw)
       \/ MessageRequest(1, "U1", "C1", "T1", raw, MaxTurnsLong)
  \/ BeginTurn(1)
  \/ ModelAnswers(1, ResponseText)
  \/ HandlerReturns(1)

SpecHistory == Init /\ [][NextHistory]_vars

\* One user, one turn at a time, no clock: every shape of model response and
\* of Mailbox reply the tool loop distinguishes.
NextTurn ==
  \/ GmailHelp("U1", "C1", "")
  \/ GmailRequest(1, "U1", "C1", " show unread ", MaxTurns + 1)
  \/ \E t \in {1} :
       \/ BeginTurn(t)
       \/ ModelFails(t)
       \/ \E response \in Responses :
            \/ ModelRequestsTools(t, response)
            \/ ModelAnswers(t, response)
       \/ \E reply \in Replies :
            \/ ToolReturns(t, reply)
            \/ ToolThrows(t, reply)
       \/ HandlerReturns(t)

SpecTurn == Init /\ [][NextTurn]_vars

\* Two users who both start sessions, in the same threads too, write in each
\* other's threads and stop: the registry operations with memory to lose.
NextRegistry ==
  \/ \E d \in TickSteps : Tick(d)
  \/ \E u \in Users :
       \/ GmailStart(1, u, "C1", "start")
       \/ GmailRequest(1, u, "C1", "show unread", MaxTurnsRegistry)
  \/ \E ts \in Threads : StartPosted(1, ts)
  \/ \E u \in Users, th \in Threads, raw \in {" Stop ", "show unread"} :
       \/ MessageNoSession(u, "C1", th, raw)
       \/ MessageForeign(u, "C1", th, raw)
       \/ MessageStop(u, "C1", th, raw)
       \/ MessageRequest(1, u, "C1", th, raw, MaxTurnsRegistry)
  \/ BeginTurn(1)
  \/ ModelAnswers(1, ResponseText)
  \/ HandlerReturns(1)

SpecRegistry == Init /\ [][NextRegistry]_vars

IdleTexts == {" ", "clear", " Stop ", "show unread"}

\* The thread listener against the clock: sessions that are written to, by
\* their owner or by someone else, with and without text, or left idle.
NextIdle ==
  \/ \E d \in TickSteps : Tick(d)
  \/ GmailStart(1, "U1", "C1", "start")
  \/ \E ts \in Threads : StartPosted(1, ts)
  \/ \E u \in Users, th \in Threads, raw \in IdleTexts :
       \/ MessageIgnored(u, "C1", th, raw)
       \/ MessageNoSession(u, "C1", th, raw)
       \/ MessageForeign(u, "C1", th, raw)
       \/ MessageStop(u, "C1", th, raw)
       \/ MessageClear(u, "C1", th, raw)
       \/ MessageRequest(1, u, "C1", th, raw, MaxTurns)
  \/ BeginTurn(1)
  \/ ModelAnswers(1, ResponseText)
  \/ HandlerReturns(1)

SpecIdle == Init /\ [][NextIdle]_vars

\* The control words of /gmail and an empty text, in the spellings users type.
CommandControlTexts ==
  {"", " ", " CLEAR ", "reset", "Start Over ", "start", "stop", "DONE"}

\* The control words of a session thread, in the spellings users type.
MessageControlTexts ==
  {" Stop ", "DONE", "End", "clear", "reset", "Start Over "}

\* No clock: control inputs and requests of the session owner, and messages
\* of a second user, around one turn at a time.
NextControl ==
  \/ Commands({"U1"}, CommandControlTexts \cup {"show unread"}, {1}, MaxTurns)
  \/ Messages(Users, {"T1"}, MessageControlTexts \cup {" ", "show unread"}, {1},
              MaxTurns)
  \/ Settles({1}, {"T1"}, {ResponseText, ResponseSend},
             {Reply("fail", FALSE, 0), Reply("ok", TRUE, 1)})

SpecControl == Init /\ [][NextControl]_vars

\* One user, two /gmail requests whose handlers may be awaiting at the same
\* time, and the clock: nothing orders the two turns.
OverlapTexts == {"show unread", "list starred"}

NextOverlap ==
  \/ \E d \in TickSteps : Tick(d)
  \/ \E t \in TaskIds, raw \in OverlapTexts :
       GmailRequest(t, "U1", "C1", raw, MaxTurns + 1)
  \/ \E t \in TaskIds :
       \/ BeginTurn(t)
       \/ ModelAnswers(t, ResponseText)
       \/ HandlerReturns(t)

SpecOverlap == Init /\ [][NextOverlap]_vars

\* One user, two turns one after the other, no clock: the model asks for emails and the
\* Mailbox Service answers with bodies of every length around the limit.
NextRender ==
  \/ GmailRequest(1, "U1", "C1", "show unread", MaxTurns + 1)
  \/ BeginTurn(1)
  \/ ModelRequestsTools(1, ResponseDetails)
  \/ ModelAnswers(1, ResponseText)
  \/ \E reply \in EmailReplies \cup {Reply("ok", FALSE, 0), Reply("fail", FALSE, 0)} :
       \/ ToolReturns(1, reply)
       \/ ToolThrows(1, reply)
  \/ HandlerReturns(1)

SpecRender == Init /\ [][NextRender]_vars

\* The turns of SpecTurn under the assumptions of a terminating turn: every
\* external call settles (the placeholder post, the Mailbox call, the final
\* post), and the model, asked again and again, eventually answers without
\* requesting tools.
FairTurn ==
  /\ WF_vars(BeginTurn(1))
  /\ WF_vars(\E reply \in Replies : ToolReturns(1, reply) \/ ToolThrows(1, reply))
  /\ SF_vars(\E response \in Responses : ModelAnswers(1, response))
  /\ WF_vars(HandlerReturns(1))

SpecTurnFair == Init /\ [][NextTurn]_vars /\ FairTurn

\* One user in a thread session, one turn at a time, no clock: the model
\* asks for each tool of the catalog, for a tool outside it, and for
\* find_marketing_emails with every kind of count.
NextTools ==
  \/ GmailStart(1, "U1", "C1", "start")
  \/ StartPosted(1, "T1")
  \/ MessageRequest(1, "U1", "C1", "T1", "show unread", MaxTurns)
  \/ BeginTurn(1)
  \/ \E response \in ToolResponses \cup {ResponseMarketing, ResponseUnknownThenBatch} :
       ModelRequestsTools(1, response)
  \/ ModelAnswers(1, ResponseText)
  \/ \E reply \in Replies :
       \/ ToolReturns(1, reply)
       \/ ToolThrows(1, reply)
  \/ HandlerReturns(1)

SpecTools == Init /\ [][NextTools]_vars

\* Two users, /gmail requests and clears, one handler at a time, no clock.
NextClear ==
  \/ \E u \in Users, raw \in {" CLEAR ", "reset", "show unread"} :
       \/ GmailClear(u, "C1", raw)
       \/ GmailRequest(1, u, "C1", raw, MaxTurns + 1)
  \/ BeginTurn(1)
  \/ ModelAnswers(1, ResponseText)
  \/ HandlerReturns(1)

SpecClear == Init /\ [][NextClear]_vars

\* One user with a thread session and up to two turns in flight, against
\* everything that removes the user's memory: /gmail reset, a stop in the
\* thread, and the sweeps of a later lookup once the clock has advanced.
NextDetach ==
  \/ \E d \in TickSteps : Tick(d)
  \/ GmailClear("U1", "C1", "reset")
  \/ \E raw \in {" Stop ", "show unread"} :
       \/ MessageNoSession("U1", "C1", "T1", raw)
       \/ MessageStop("U1", "C1", "T1", raw)
  \/ \E t \in TaskIds :
       \/ GmailStart(t, "U1", "C1", "start")
       \/ StartPosted(t, "T1")
       \/ \E raw \in OverlapTexts : GmailRequest(t, "U1", "C1", raw, MaxTurns + 1)
       \/ BeginTurn(t)
       \/ ModelAnswers(t, ResponseText)
       \/ HandlerReturns(t)

SpecDetach == Init /\ [][NextDetach]_vars

\* U1 with up to two thread sessions and /gmail requests, U2 writing in the
\* same threads, and the clock.
NextShared ==
  \/ \E d \in TickSteps : Tick(d)
  \/ GmailStart(1, "U1", "C1", "start")
  \/ \E ts \in Threads : StartPosted(1, ts)
  \/ GmailRequest(1, "U1", "C1", "show unread", MaxTurns)
  \/ \E th \in Threads :
       \/ MessageStop("U1", "C1", th, " Stop ")
       \/ MessageNoSession("U2", "C1", th, "show unread")
       \/ MessageForeign("U2", "C1", th, "show unread")
  \/ BeginTurn(1)
  \/ ModelAnswers(1, ResponseText)
  \/ HandlerReturns(1)

SpecShared == Init /\ [][NextShared]_vars

\* Two users side by side: requests, clears and stops of both, a thread
\* session of U1 that U2 writes in, and the clock.
NextIsolation ==
  \/ \E d \in TickSteps : Tick(d)
  \/ \E u \in Users, raw \in {"reset", "stop", "show unread"} :
       \/ GmailClear(u, "C1", raw)
       \/ GmailStop(u, "C1", raw)
       \/ GmailRequest(1, u, "C1", raw, MaxTurns + 1)
  \/ GmailStart(1, "U1", "C1", "start")
  \/ StartPosted(1, "T1")
  \/ MessageStop("U1", "C1", "T1", " Stop ")
  \/ MessageNoSession("U2", "C1", "T1", "show unread")
  \/ MessageForeign("U2", "C1", "T1", "show unread")
  \/ BeginTurn(1)
  \/ ModelAnswers(1, ResponseText)
  \/ HandlerReturns(1)

SpecIsolation == Init /\ [][NextIsolation]_vars

\* One user, one turn at a time, no clock: responses whose stop reason and
\* tool requests disagree, beside the ordinary ones.
NextStop ==
  \/ GmailRequest(1, "U1", "C1", "show unread", MaxTurns + 1)
  \/ BeginTurn(1)
  \/ ModelFails(1)
  \/ \E response \in {ResponseText, ResponseSend, ResponseTwoTools,
                       ResponseStopped, ResponseNoRequest} :
       \/ ModelRequestsTools(1, response)
       \/ ModelAnswers(1, response)
  \/ \E reply \in Replies :
       \/ ToolReturns(1, reply)
       \/ ToolThrows(1, reply)
  \/ HandlerReturns(1)

SpecStop == Init /\ [][NextStop]_vars

\* One user, two /gmail requests whose handlers may be awaiting at the same
\* time, and nothing that removes or trims the history: no clock, no clear,
\* no session.
NextOverlapQuiet ==
  \E t \in TaskIds :
    \/ \E raw \in OverlapTexts : GmailRequest(t, "U1", "C1", raw, MaxTurns + 1)
    \/ BeginTurn(t)
    \/ \E response \in {ResponseText, ResponseTwoTexts} : ModelAnswers(t, response)
    \/ HandlerReturns(t)

SpecOverlapQuiet == Init /\ [][NextOverlapQuiet]_vars

-----------------------------------------------------------------------------
(* Claims *)

Stored == {conversationMemory[u] : u \in Users} \ {NoState}

\* The last n entries of s, all of s when it has fewer.
LastN(s, n) == SubSeq(s, Len(s) - Min(Len(s), n) + 1, Len(s))

\* C1: every ConversationState in the Memory Store has at most
\* MAX_HISTORY_MESSAGES history entries in every state between two steps,
\* after the user-turn append as after the assistant-turn append.
C1_HistoryBounded ==
  \A o \in Stored : Len(heap[o].messages) <= MAX_HISTORY_MESSAGES

\* A stored history that is full after more than MAX_HISTORY_MESSAGES pushes,
\* the last of them the assistant's answer of the turn whose user entry was
\* the first to evict.
C1_Witness ==
  \E o \in Stored :
    /\ Len(heap[o].messages) = MAX_HISTORY_MESSAGES
    /\ Len(heap[o].pushed) = MAX_HISTORY_MESSAGES + 2
    /\ heap[o].pushed[Len(heap[o].pushed)].role = "assistant"

\* C2: the history of a state is the last min(k, MAX_HISTORY_MESSAGES) of the
\* k entries pushed to it so far, in the order they were pushed.
C2_HistoryIsSuffix ==
  \A o \in ObjIds :
    heap[o].messages = LastN(heap[o].pushed, MAX_HISTORY_MESSAGES)

\* The first eviction: the user entry of a turn has just pushed the oldest
\* entry out, with the turn waiting for the model.
C2_Witness ==
  \E t \in TaskIds :
    /\ tasks[t].pc = "model"
    /\ Len(heap[tasks[t].state].pushed) = MAX_HISTORY_MESSAGES + 1
    /\ heap[tasks[t].state].messages # heap[tasks[t].state].pushed

OwnedBy(sess, u) == {k \in Keys : HasSession(sess, k) /\ sess[k].userId = u}

InFlight(u) == {t \in TaskIds : tasks[t].userId = u /\ tasks[t].pc \in {"model", "tool"}}

\* C3: a step that removes a thread session from the registry, by endSession
\* or by the idle sweep, leaves no ConversationState in the Memory Store for
\* the user that session belonged to, also while a turn of that user is in
\* flight.
C3_RemovalClearsMemory ==
  [][\A k \in Keys :
       (HasSession(activeSessions, k) /\ ~HasSession(activeSessions', k))
         => conversationMemory'[activeSessions[k].userId] = NoState]_vars

\* The idle sweep has just removed the session of a user whose turn is
\* waiting for the model: the turn still holds the state object with its
\* history, the map no longer does.
C3_Witness ==
  /\ lastEvent.op = "sweep"
  /\ \E u \in lastEvent.ended :
       /\ OwnedBy(activeSessions, u) = {}
       /\ conversationMemory[u] = NoState
       /\ \E t \in InFlight(u) :
            /\ tasks[t].state # NoState
            /\ heap[tasks[t].state].messages # <<>>

\* C4: a clear / reset / start over, as /gmail text or as a message in the
\* session thread, removes no session: every session of that user that was
\* active (not idle for more than the timeout) before the step is in the
\* registry afterwards under the same key with the same userId.
C4_ClearKeepsSessions ==
  [][lastEvent'.op \in {"GmailClear", "MessageClear"} =>
       \A k \in OwnedBy(activeSessions, lastEvent'.userId) \ ExpiredKeys(activeSessions, now) :
         /\ HasSession(activeSessions', k)
         /\ activeSessions'[k].userId = activeSessions[k].userId
         /\ activeSessions'[k].channelId = activeSessions[k].channelId
         /\ activeSessions'[k].threadTs = activeSessions[k].threadTs]_vars

\* A clear sent in the session thread has wiped the memory a turn in flight
\* was working on, and the session of the user who sent it is still
\* registered.
C4_Witness ==
  /\ lastEvent.op = "MessageClear"
  /\ OwnedBy(activeSessions, lastEvent.userId) # {}
  /\ conversationMemory[lastEvent.userId] = NoState
  /\ \E t \in InFlight(lastEvent.userId) : tasks[t].state # NoState

\* C5: a stop / done / end of a user who has an active thread session, as a
\* message in the session thread or as /gmail text, removes a session of that
\* user from the registry and wipes that user's ConversationState.
C5_StopEndsSession ==
  [][(/\ lastEvent'.op \in {"GmailStop", "MessageStop"}
      /\ OwnedBy(activeSessions, lastEvent'.userId) \ ExpiredKeys(activeSessions, now) # {})
       => /\ \E k \in OwnedBy(activeSessions, lastEvent'.userId) :
               ~HasSession(activeSessions', k)
          /\ conversationMemory'[lastEvent'.userId] = NoState]_vars

\* C6: at every lookup of any key, by getSession or by isActiveSession, a
\* session idle for more than SESSION_TIMEOUT_MS is gone from the registry,
\* a session idle for at most SESSION_TIMEOUT_MS is still there, and the
\* looked-up session is returned when it is one of the latter; right after a
\* step that looked a session up no expired session is left.
C6_ExpiredAbsentLiveReturned ==
  /\ \A key \in Keys :
       LET got == getSession(activeSessions, conversationMemory, key[1], key[2], now)
           act == isActiveSession(activeSessions, conversationMemory, key[1], key[2], now)
       IN \A k \in Keys :
            HasSession(activeSessions, k) =>
              IF now - activeSessions[k].lastActivity > SESSION_TIMEOUT_MS
              THEN /\ ~HasSession(got.sessions, k)
                   /\ ~HasSession(act.sessions, k)
                   /\ k = key => (got.result = NoSession /\ ~act.result)
              ELSE /\ HasSession(got.sessions, k)
                   /\ act.sessions[k] = activeSessions[k]
                   /\ k = key =>
                        /\ act.result
                        /\ got.result = [activeSessions[k] EXCEPT !.lastActivity = now]
                   /\ k # key => got.sessions[k] = activeSessions[k]
  /\ lastEvent.op \in {"sweep", "MessageStop", "MessageClear"} =>
       ExpiredKeys(activeSessions, now) = {}

\* A lookup has just swept an expired session away while another session,
\* idle for exactly the timeout, is still registered.
C6_Witness ==
  /\ lastEvent.op = "sweep"
  /\ \E k \in Keys :
       /\ HasSession(activeSessions, k)
       /\ now - activeSessions[k].lastActivity = SESSION_TIMEOUT_MS

IsPrefix(a, b) == Len(a) <= Len(b) /\ SubSeq(b, 1, Len(a)) = a

\* The turns whose get_or_create this step performs for user u.
Beginning(u) ==
  {t \in TaskIds : tasks[t].userId = u /\ tasks[t].pc = "placeholder"
                                       /\ tasks'[t].pc = "model"}

ClearOrStopBy(u) ==
  /\ lastEvent'.op \in {"GmailClear", "GmailStop", "MessageClear", "MessageStop"}
  /\ lastEvent'.userId = u

\* What a step owes the state o the map holds for user u unless the step is
\* excused: within the timeout o stays the user's state with everything
\* pushed so far, and a get_or_create of the step returns o and works on its
\* history; past the timeout a get_or_create of the step returns a state
\* that holds nothing but the new user message.
MemoryKept(u, excused) ==
  LET o == conversationMemory[u] IN
  (o # NoState /\ ~excused) =>
    IF now - heap[o].lastActivity <= MEMORY_TIMEOUT_MS
    THEN /\ conversationMemory'[u] = o
         /\ IsPrefix(heap[o].pushed, heap'[o].pushed)
         /\ \A t \in Beginning(u) :
              /\ tasks'[t].state = o
              /\ heap'[o].pushed =
                   Append(heap[o].pushed, TextMessage("user", StrOf(tasks[t].request)))
              /\ tasks'[t].messages = heap'[o].messages
    ELSE \A t \in Beginning(u) :
           /\ conversationMemory'[u] = tasks'[t].state
           /\ heap'[tasks'[t].state].pushed =
                <<TextMessage("user", StrOf(tasks[t].request))>>
           /\ tasks'[t].messages = heap'[tasks'[t].state].messages

\* C7 as stated: a state touched no more than the timeout ago survives every
\* step that is not a clear or a stop of its user, so that the next
\* get_or_create returns it with its history; a state touched longer ago is
\* replaced by a fresh one at the next get_or_create.
C7_KeptUnlessClearedOrStopped ==
  [][\A u \in Users : MemoryKept(u, ClearOrStopBy(u))]_vars

\* C7: for every user, a state touched no more than MEMORY_TIMEOUT_MS ago is
\* what the next get_or_create returns, history intact, provided that since
\* then the user neither cleared nor stopped and the idle sweep removed no
\* thread session of that user; a state touched more than MEMORY_TIMEOUT_MS
\* ago is replaced by a fresh state with an empty history.
C7_KeptUnlessClearedStoppedOrSwept ==
  [][\A u \in Users :
       MemoryKept(u, ClearOrStopBy(u) \/ u \in lastEvent'.ended)]_vars

\* A second turn has begun on the state of the first, idle for exactly the
\* timeout when it was looked up: the history holds the first turn and the
\* new user message.
C7_Witness ==
  \E t \in TaskIds :
    /\ tasks[t].pc = "model"
    /\ tasks[t].modelCalls = 1
    /\ Len(heap[tasks[t].state].pushed) = 3
    /\ conversationMemory[tasks[t].userId] = tasks[t].state
    /\ now = MEMORY_TIMEOUT_MS
    /\ turns = 2

\* C8: executeTool returns a string for every catalog tool, argument shape
\* and Mailbox outcome: no turn ends with an error raised by a tool.
C8_DispatcherTotal ==
  /\ \A t \in TaskIds : tasks[t].error # "tool execution failed"
  /\ \A t \in TaskIds :
       tasks[t].pc = "tool" =>
         \A reply \in Replies :
           ~ToolOutcome(CurrentToolUse(tasks[t]).name,
                        CurrentToolUse(tasks[t]).input, reply).throws

\* The results of the round of task that answer a request for a tool
\* outside the catalog.
UnknownResults(task) ==
  {i \in 1 .. Len(task.toolResults) :
     ToolUseBlocks(task.response)[i].name \notin ToolCatalog}

\* C9: a request for a tool that is not in the catalog gets the string
\* "Unknown tool: <name>" as its tool result, paired with the request's id;
\* the step that produces it makes no Mailbox call for it and raises no
\* error, the turn goes on with the next tool or with the next model call,
\* and that model call carries the diagnostic in the tool results it sends.
C9_UnknownToolContinues ==
  [][\A t \in TaskIds :
       LET old == tasks[t]
           new == tasks'[t]
           blocks == ToolUseBlocks(new.response)
           fresh == IF new = old THEN {}
                    ELSE IF old.pc = "tool"
                    THEN UnknownResults(new) \ UnknownResults(old)
                    ELSE IF old.pc = "model" /\ new.pc \in {"model", "tool"}
                    THEN UnknownResults(new)
                    ELSE {}
       IN
       /\ \A i \in fresh :
            /\ new.toolResults[i] =
                 [type |-> "tool_result", text |-> <<"Unknown tool: ", blocks[i].name>>,
                  id |-> blocks[i].id, name |-> "", input |-> NoArgs]
            /\ new.error = ""
            /\ new.pc \in {"tool", "model"}
            /\ new.pc = "model" =>
                 /\ new.modelCalls = old.modelCalls + 1
                 /\ new.messages[Len(new.messages)].role = "user"
                 /\ new.messages[Len(new.messages)].blocks[i] = new.toolResults[i]
       /\ Len(new.calls) > Len(old.calls) =>
            /\ Len(new.calls) = Len(old.calls) + 1
            /\ new.pc = "tool"
            /\ blocks[new.toolIdx].name \in ToolCatalog]_vars

\* The only tool the model asked for is unknown: no Mailbox call was made and
\* the second model call is out with the diagnostic as the tool result.
C9_Witness ==
  \E t \in TaskIds :
    /\ tasks[t].pc = "model"
    /\ tasks[t].modelCalls = 2
    /\ tasks[t].calls = <<>>
    /\ tasks[t].error = ""
    /\ UnknownResults(tasks[t]) = {1}
    /\ tasks[t].toolResults[1].text = <<"Unknown tool: ", "summarize_inbox">>

\* C10: when a model call of a turn fails, the first or one after a tool
\* round, the step makes no further model call and no Mailbox call and
\* pushes nothing on the history, the handler's placeholder becomes the
\* error reply and not an answer, and from then on the handler only returns.
C10_ModelFailureEndsTurn ==
  [][\A t \in TaskIds :
       /\ (tasks[t].error # "model call failed" /\ tasks'[t].error = "model call failed") =>
            /\ tasks[t].pc = "model"
            /\ tasks'[t].pc = "replying"
            /\ tasks'[t].modelCalls = tasks[t].modelCalls
            /\ tasks'[t].calls = tasks[t].calls
            /\ tasks'[t].result = <<>>
            /\ tasks'[t].post.kind = "error"
            /\ tasks'[t].post.visibility =
                 (IF tasks[t].handler = "command" THEN "ephemeral" ELSE "thread")
            /\ \A o \in ObjIds : heap'[o].pushed = heap[o].pushed \/ heap'[o] = FreeCell
       /\ tasks[t].error = "model call failed" =>
            \/ tasks'[t] = tasks[t]
            \/ tasks'[t] = IdleTask]_vars

\* The model call that follows a tool round has failed: the handler is about
\* to show the error.
C10_Witness ==
  \E t \in TaskIds :
    /\ tasks[t].error = "model call failed"
    /\ tasks[t].modelCalls = 2
    /\ Len(tasks[t].calls) = 1
    /\ tasks[t].post.kind = "error"

\* What callGmailApi brings back when the Mailbox Service rejects the
\* operation: no success, no item.
DomainFailure == Reply("ok", FALSE, 0)

\* C11: a Mailbox call that ends in a domain failure raises nothing: the
\* dispatcher returns a failure string, that string becomes the tool result
\* paired with the request's id, the turn goes on without an error, and the
\* next model call has the result in the working message list.
C11_DomainFailureAbsorbed ==
  [][\A t \in TaskIds :
       LET old == tasks[t]
           new == tasks'[t]
       IN (old.pc = "tool" /\ new # old) =>
            LET i == old.toolIdx
                toolUse == ToolUseBlocks(old.response)[i]
                failure == ToolOutcome(toolUse.name, toolUse.input, DomainFailure)
            IN /\ ~failure.throws
               /\ failure.text # <<>>
               /\ (Len(new.toolResults) >= i /\ new.toolResults[i].text = failure.text) =>
                    /\ new.toolResults[i] =
                         [type |-> "tool_result", text |-> failure.text,
                          id |-> toolUse.id, name |-> "", input |-> NoArgs]
                    /\ new.error = ""
                    /\ new.pc \in {"tool", "model"}
                    /\ new.pc = "model" =>
                         /\ new.modelCalls = old.modelCalls + 1
                         /\ new.messages[Len(new.messages)] =
                              BlockMessage("user", new.toolResults)]_vars

\* send_email was rejected: the second model call is out with the failure
\* string as the tool result and no error is set.
C11_Witness ==
  \E t \in TaskIds :
    /\ tasks[t].pc = "model"
    /\ tasks[t].modelCalls = 2
    /\ tasks[t].error = ""
    /\ Len(tasks[t].toolResults) = 1
    /\ tasks[t].toolResults[1].text = <<"Failed to send email: ", "error">>
    /\ tasks[t].messages[Len(tasks[t].messages)].blocks = tasks[t].toolResults

\* The Mailbox calls made so far that ask for a number of results.
CountedCalls ==
  {c \in UNION {{tasks[t].calls[i] : i \in 1 .. Len(tasks[t].calls)} : t \in TaskIds} :
     c.op \in {"searchEmails", "listEmails"}}

\* C12: the count search_emails and list_recent_emails pass to the Mailbox
\* Service lies in 1 .. 10 whatever the model supplied (0, a negative number,
\* more than 10), and is 5 when the argument is absent.
C12_CountNormalized ==
  /\ \A c \in CountedCalls : c.count \in 1 .. 10
  /\ MailboxRequest("list_recent_emails", NoArgs).count = 5
  /\ MailboxRequest("search_emails", NoArgs).count = 5

\* The texts of blocks in order with a newline between neighbours, built
\* from the left.
NewlineJoined(blocks) ==
  LET upTo[i \in 0 .. Len(blocks)] ==
        IF i = 0 THEN <<>>
        ELSE upTo[i - 1] \o (IF i > 1 THEN <<"\n">> ELSE <<>>) \o blocks[i].text
  IN upTo[Len(blocks)]

PlainEntry(m) ==
  /\ m.role \in {"user", "assistant"}
  /\ m.form = "string"
  /\ m.blocks = <<>>

\* C14: a turn persists its user text when it begins and its final answer
\* text when it completes, the answer right after the user text when nothing
\* else touched the state, and nothing while it runs its tool rounds; no
\* entry of a persisted history carries a tool request or a tool result.
C14_TurnPersistsTwoTexts ==
  [][/\ \A o \in ObjIds :
          \A i \in 1 .. Len(heap'[o].messages) : PlainEntry(heap'[o].messages[i])
     /\ \A t \in TaskIds :
          LET old == tasks[t]
              new == tasks'[t]
              o == old.state
          IN /\ (old.pc = "placeholder" /\ new.pc = "model") =>
                  LET before == IF conversationMemory[old.userId] = new.state
                                THEN heap[new.state].pushed ELSE <<>>
                  IN heap'[new.state].pushed =
                       Append(before, TextMessage("user", StrOf(old.request)))
             /\ (old.pc \in {"model", "tool"} /\ new.pc \in {"model", "tool"}) =>
                  heap' = heap
             /\ (old.pc = "model" /\ new.pc = "replying" /\ new.error = "") =>
                  /\ heap'[o].pushed =
                       Append(heap[o].pushed, TextMessage("assistant", new.result))
                  /\ heap'[o].pushed[Len(heap[o].pushed)] =
                       TextMessage("user", StrOf(old.request))
                  /\ heap'[o].messages =
                       LastN(Append(heap[o].messages,
                                    TextMessage("assistant", new.result)),
                             MAX_HISTORY_MESSAGES)]_vars

\* A first turn with two Mailbox calls has completed: the stored history is
\* the user's text and the final answer.
C14_Witness ==
  \E t \in TaskIds :
    /\ tasks[t].pc = "replying"
    /\ tasks[t].error = ""
    /\ Len(tasks[t].calls) = 2
    /\ conversationMemory[tasks[t].userId] # NoState
    /\ heap[conversationMemory[tasks[t].userId]].messages =
         <<TextMessage("user", <<tasks[t].request>>),
           TextMessage("assistant", tasks[t].result)>>

\* C15: the tool requests of one model response are executed one at a time
\* in the order listed: a Mailbox call is issued for request i only when
\* every earlier request has its result, no request is passed over unless it
\* is unknown to the dispatcher, none is executed twice, and the results
\* given back to the model are in request order, each with its request's id.
C15_ToolsInOrder ==
  [][\A t \in TaskIds :
       LET old == tasks[t]
           new == tasks'[t]
           blocks == ToolUseBlocks(new.response)
           prev == IF old.pc = "tool" THEN old.toolIdx ELSE 0
           cur == IF new.pc = "tool" THEN new.toolIdx ELSE Len(blocks) + 1
       IN (/\ new # old
           /\ old.pc \in {"model", "tool"} /\ new.pc \in {"model", "tool"}) =>
            /\ new.response.stop_reason = "tool_use"
            /\ old.pc = "tool" => new.response = old.response
            /\ cur > prev
            /\ \A j \in (prev + 1) .. (cur - 1) : blocks[j].name \notin ToolCatalog
            /\ Len(new.toolResults) = cur - 1
            /\ \A j \in 1 .. (cur - 1) :
                 /\ new.toolResults[j].type = "tool_result"
                 /\ new.toolResults[j].id = blocks[j].id
            /\ \A j \in 1 .. (prev - 1) : new.toolResults[j] = old.toolResults[j]
            /\ new.pc = "tool" =>
                 /\ blocks[cur].name \in ToolCatalog
                 /\ new.calls =
                      Append(old.calls, MailboxRequest(blocks[cur].name, blocks[cur].input))
            /\ new.pc = "model" =>
                 /\ new.calls = old.calls
                 /\ new.messages =
                      old.messages \o <<BlockMessage("assistant", new.response.content),
                                        BlockMessage("user", new.toolResults)>>]_vars

\* A response asked for trash_email, an unknown tool and list_recent_emails:
\* the two Mailbox calls were made in that order and the three results are
\* back in request order.
C15_Witness ==
  \E t \in TaskIds :
    /\ tasks[t].pc = "model"
    /\ tasks[t].modelCalls = 2
    /\ tasks[t].calls = <<[op |-> "trashEmail", count |-> NoCount],
                          [op |-> "listEmails", count |-> 5]>>
    /\ Len(tasks[t].toolResults) = 3
    /\ tasks[t].toolResults[1].id = "tu1"
    /\ tasks[t].toolResults[2].id = "tu2"
    /\ tasks[t].toolResults[3].id = "tu3"

\* What a message of another user in a session thread leaves alone whatever
\* its text: no handler is started or advanced, no turn begins, and every
\* session that had not expired stays registered with its owner.
ForeignLeavesAlone ==
  /\ tasks' = tasks
  /\ turns' = turns
  /\ \A k \in Keys \ ExpiredKeys(activeSessions, now) :
       HasSession(activeSessions, k) =>
         /\ HasSession(activeSessions', k)
         /\ activeSessions'[k].userId = activeSessions[k].userId
         /\ activeSessions'[k].userId # lastEvent'.userId
              \/ activeSessions'[k] = activeSessions[k]

\* C16 as stated: a threaded message of a user who does not own the session
\* starts no model call and no tool, removes no session and changes no
\* ConversationState.
C16_ForeignChangesNothing ==
  [][lastEvent'.op = "MessageForeign" =>
       /\ ForeignLeavesAlone
       /\ conversationMemory' = conversationMemory
       /\ heap' = heap]_vars

\* C16: a threaded message of a user who does not own the session, whatever
\* its text, starts no model call and no tool, does not remove the session,
\* and changes no ConversationState other than those the idle sweep of its
\* lookup clears: the states of the owners of sessions that had already
\* expired.
C16_ForeignOnlySweeps ==
  [][lastEvent'.op = "MessageForeign" =>
       /\ ForeignLeavesAlone
       /\ \A u \in Users :
            conversationMemory'[u] =
              (IF u \in ExpiredOwners(activeSessions, now)
               THEN NoState ELSE conversationMemory[u])
       /\ \A u \in Users :
            conversationMemory'[u] # NoState =>
              heap'[conversationMemory'[u]] = heap[conversationMemory[u]]]_vars

\* Another user has just written stop in a session thread: the session is
\* still registered to its owner, whose memory is untouched.
C16_Witness ==
  /\ lastEvent.op = "MessageForeign"
  /\ lastEvent.ended = {}
  /\ \E k \in Keys :
       /\ HasSession(activeSessions, k)
       /\ activeSessions[k].userId # lastEvent.userId
       /\ activeSessions[k].lastActivity = now
       /\ conversationMemory[activeSessions[k].userId] # NoState

\* C17: every post that carries an assistant answer is ephemeral, visible
\* only to the user who asked, also for answers given in a thread session.
C17_AnswersEphemeral ==
  \A t \in TaskIds :
    tasks[t].post.kind = "answer" => tasks[t].post.visibility = "ephemeral"

\* C18: the registry is a map from (channel, thread) to one session, and
\* createSession is last-writer-wins: after it the key holds a session of
\* the creating user stamped with the current time, whatever was stored
\* there, a lookup of the key returns that session, no other key's session
\* changes, and no ConversationState is cleared or altered.
C18_CreateOverwritesOnlyItsKey ==
  [][\A t \in TaskIds :
       (tasks[t].pc = "startPosting" /\ tasks'[t].pc = "idle") =>
         \E k \in Keys :
           /\ k[1] = tasks[t].channelId
           /\ activeSessions'[k] =
                [userId |-> tasks[t].userId, channelId |-> k[1], threadTs |-> k[2],
                 lastActivity |-> now]
           /\ getSession(activeSessions', conversationMemory', k[1], k[2], now).result
                = activeSessions'[k]
           /\ \A j \in Keys \ {k} : activeSessions'[j] = activeSessions[j]
           /\ conversationMemory' = conversationMemory
           /\ heap' = heap]_vars

\* A user has just started a session in a thread that held the session of
\* another user: the key now belongs to the newcomer, the other thread's
\* session is still there and the former owner's memory is intact.
C18_Witness ==
  /\ lastEvent.op = "takeOverSession"
  /\ \E k \in Keys, j \in Keys :
       /\ activeSessions[k].userId = lastEvent.userId
       /\ activeSessions[k].lastActivity = now
       /\ j # k
       /\ HasSession(activeSessions, j)
       /\ activeSessions[j].lastActivity < now
  /\ \A u \in Users \ {lastEvent.userId} :
       /\ conversationMemory[u] # NoState
       /\ heap[conversationMemory[u]].messages # <<>>

\* C19: endSession returns true exactly when the key holds a session; on a
\* free key it returns false and changes neither the registry nor the Memory
\* Store; on a taken key it removes that entry alone and clears the memory
\* of that session's user alone. A stop in a session thread does exactly
\* that after the sweep of its lookup.
C19_EndRemovesOnlyItsSession ==
  [][/\ \A key \in Keys :
          LET e == endSession(activeSessions, conversationMemory, key[1], key[2])
              owner == activeSessions[key].userId
          IN IF activeSessions[key].userId = NoUser
             THEN /\ e.result = FALSE
                  /\ e.sessions = activeSessions
                  /\ e.mem = conversationMemory
             ELSE /\ e.result = TRUE
                  /\ e.sessions[key].userId = NoUser
                  /\ \A j \in Keys \ {key} : e.sessions[j] = activeSessions[j]
                  /\ e.mem[owner] = NoState
                  /\ \A u \in Users \ {owner} : e.mem[u] = conversationMemory[u]
     /\ lastEvent'.op = "MessageStop" =>
          \E key \in OwnedBy(activeSessions, lastEvent'.userId)
                       \ ExpiredKeys(activeSessions, now) :
            /\ activeSessions'[key].userId = NoUser
            /\ \A j \in Keys \ ({key} \cup ExpiredKeys(activeSessions, now)) :
                 activeSessions'[j] = activeSessions[j]
            /\ \A u \in Users :
                 conversationMemory'[u] =
                   (IF u = lastEvent'.userId \/ u \in ExpiredOwners(activeSessions, now)
                    THEN NoState ELSE conversationMemory[u])]_vars

\* A user has just stopped a session: it is gone and so is that user's
\* memory, while the other user's session and memory are as they were.
C19_Witness ==
  /\ lastEvent.op = "MessageStop"
  /\ lastEvent.ended = {lastEvent.userId}
  /\ conversationMemory[lastEvent.userId] = NoState
  /\ \E u \in Users \ {lastEvent.userId} :
       /\ OwnedBy(activeSessions, u) # {}
       /\ conversationMemory[u] # NoState
       /\ heap[conversationMemory[u]].messages # <<>>

\* The session of thread th is registered and has not idled out.
Addressed(th) ==
  /\ HasSession(activeSessions, getSessionKey("C1", th))
  /\ now - activeSessions[getSessionKey("C1", th)].lastActivity <= SESSION_TIMEOUT_MS

\* The step is the listener's synchronous part for a message with text raw
\* that u wrote in thread th and that does not end the session.
Inbound(u, th, raw) ==
  \/ MessageForeign(u, "C1", th, raw)
  \/ MessageClear(u, "C1", th, raw)
  \/ \E t \in TaskIds : MessageRequest(t, u, "C1", th, raw, MaxTurns)

\* What the registry guarantees around the refresh: a session idle for no
\* longer than the timeout leaves the registry only by its owner's stop, and
\* a lookup of a free or expired key returns nothing and registers nothing.
LiveSessionsStay ==
  /\ \A k \in Keys :
       (/\ HasSession(activeSessions, k)
        /\ now - activeSessions[k].lastActivity <= SESSION_TIMEOUT_MS
        /\ ~HasSession(activeSessions', k)) =>
         /\ lastEvent'.op = "MessageStop"
         /\ lastEvent'.userId = activeSessions[k].userId
  /\ \A k \in Keys :
       (~HasSession(activeSessions, k) \/ k \in ExpiredKeys(activeSessions, now)) =>
         LET got == getSession(activeSessions, conversationMemory, k[1], k[2], now)
         IN /\ got.result = NoSession
            /\ \A j \in Keys : HasSession(got.sessions, j) =>
                 (HasSession(activeSessions, j) /\ j # k)

\* C20 as stated: every threaded message that arrives for an active session
\* sets the session's lastActivity to the current time.
C20_EveryMessageRefreshes ==
  [][/\ LiveSessionsStay
     /\ \A u \in Users, th \in Threads, raw \in IdleTexts :
          (Addressed(th) /\ (Inbound(u, th, raw) \/ MessageIgnored(u, "C1", th, raw))) =>
            activeSessions'[getSessionKey("C1", th)].lastActivity = now]_vars

\* C20: every threaded message with a non-empty text that arrives for an
\* active session, from its owner or not, sets the session's lastActivity to
\* the current time unless it ends the session, so a session written to at
\* intervals no longer than the timeout is not removed by the idle sweep; a
\* lookup of a free or expired key returns nothing and creates nothing.
C20_TextMessageRefreshes ==
  [][/\ LiveSessionsStay
     /\ \A u \in Users, th \in Threads, raw \in IdleTexts :
          (Addressed(th) /\ Inbound(u, th, raw)) =>
            /\ Trim(raw) # ""
            /\ activeSessions'[getSessionKey("C1", th)].lastActivity = now
            /\ activeSessions'[getSessionKey("C1", th)].userId
                 = activeSessions[getSessionKey("C1", th)].userId]_vars

\* The owner wrote a request in a session thread when the clock stood at
\* the timeout; a millisecond later, the request still in flight, a lookup
\* has swept the other, unrefreshed session away and this one is still
\* registered.
C20_Witness ==
  /\ now = SESSION_TIMEOUT_MS + 1
  /\ lastEvent.op = "sweep"
  /\ \E k \in Keys, t \in TaskIds :
       /\ HasSession(activeSessions, k)
       /\ activeSessions[k].lastActivity = SESSION_TIMEOUT_MS
       /\ tasks[t].handler = "message"
       /\ tasks[t].threadTs = k[2]
       /\ \A j \in Keys \ {k} : ~HasSession(activeSessions, j)

\* C21: every access to a ConversationState stamps it with the current
\* time: the get_or_create at the start of a turn and also the append of the
\* final answer at its end.
C21_EveryAccessTouches ==
  [][\A t \in TaskIds :
       LET old == tasks[t]
           new == tasks'[t]
       IN /\ (old.pc = "placeholder" /\ new.pc = "model") =>
               heap'[new.state].lastActivity = now
          /\ (/\ old.pc = "model" /\ new.pc = "replying" /\ new.error = ""
              /\ conversationMemory'[old.userId] = old.state) =>
               heap'[old.state].lastActivity = now]_vars

\* A step leaves every history as it was or frees it, starts no turn and
\* makes no model or Mailbox call.
NoTurnEffect ==
  /\ turns' = turns
  /\ \A t \in TaskIds :
       tasks'[t].pc \in {"placeholder", "model", "tool", "replying"} =>
         tasks'[t] = tasks[t]
  /\ \A o \in ObjIds : heap'[o] = heap[o] \/ heap'[o] = FreeCell

\* C22: an empty /gmail text and the session-control words, trimmed and
\* compared case-insensitively, are handled before the loop: they never
\* start a turn, and the step that handles them makes no model call, runs no
\* tool and appends to no history.
C22_ControlInputsBypassLoop ==
  [][\A u \in Users, c \in Channels :
       /\ \A raw \in CommandControlTexts :
            /\ \A t \in TaskIds : ~GmailRequest(t, u, c, raw, MaxTurns)
            /\ (\/ GmailClear(u, c, raw) \/ GmailStop(u, c, raw)
                \/ GmailHelp(u, c, raw)
                \/ \E t \in TaskIds : GmailStart(t, u, c, raw)) => NoTurnEffect
       /\ \A raw \in MessageControlTexts, th \in Threads :
            /\ \A t \in TaskIds : ~MessageRequest(t, u, c, th, raw, MaxTurns)
            /\ (MessageStop(u, c, th, raw) \/ MessageClear(u, c, th, raw))
                 => NoTurnEffect]_vars

\* A control word was handled after a turn had stored a history.
C22_Witness ==
  /\ lastEvent.op = "MessageClear"
  /\ turns = 1
  /\ \A t \in TaskIds : tasks[t].pc = "idle"
  /\ conversationMemory["U1"] = NoState

\* The history the map holds for a user, empty when it holds none.
Persisted(u) ==
  IF conversationMemory[u] = NoState THEN <<>>
  ELSE heap[conversationMemory[u]].messages

\* C23: nothing excludes one turn from running between another turn's
\* get_or_create and its final append.  The append goes to the object the
\* turn holds: it ends the user's persisted history when that object is
\* still the one in the map, and it is missing from the persisted history
\* when the map entry was replaced in between.
C23_AppendLostWhenReplaced ==
  [][\A t \in TaskIds :
       LET old == tasks[t]
           new == tasks'[t]
           s == old.state
           u == old.userId
       IN (old.pc = "model" /\ new.pc = "replying" /\ new.error = "") =>
            IF conversationMemory[u] = s
            THEN /\ conversationMemory'[u] = s
                 /\ heap'[s].messages[Len(heap'[s].messages)] =
                      TextMessage("assistant", new.result)
            ELSE /\ conversationMemory' = conversationMemory
                 /\ \A o \in ObjIds \ {s} : heap'[o] = heap[o]]_vars

\* The second turn of U1 ran from its get_or_create to its answer while the
\* first was between its own get_or_create and its append: the first turn
\* holds an object the map no longer holds, and the entry it appended is
\* missing from the persisted history.
C23_Witness ==
  /\ tasks[1].pc = "model" /\ tasks[1].request = "show unread"
  /\ tasks[1].state # conversationMemory["U1"]
  /\ heap[tasks[1].state].messages = <<TextMessage("user", <<"show unread">>)>>
  /\ tasks[2].pc = "replying" /\ tasks[2].error = ""
  /\ tasks[2].request = "list starred"
  /\ Persisted("U1") = <<TextMessage("user", <<"list starred">>),
                         TextMessage("assistant", tasks[2].result)>>

\* C24: nothing orders the turns of one user.  A turn waiting for the model
\* can take its answer, and a turn whose placeholder is posted can begin,
\* whatever the other turns of that user are doing.
C24_NoTurnWaitsForAnother ==
  \A t \in TaskIds :
    /\ tasks[t].pc = "model" => ENABLED ModelAnswers(t, ResponseText)
    /\ tasks[t].pc = "placeholder" => ENABLED BeginTurn(t)

\* Turn 1 of U1 began first and is still waiting for the model; turn 2 began
\* later, was sent the first turn's user entry without an answer to it, and
\* its answer is already in the persisted history.
C24_Witness ==
  /\ tasks[1].pc = "model" /\ tasks[1].request = "show unread"
  /\ tasks[1].state = conversationMemory["U1"]
  /\ tasks[2].pc = "replying" /\ tasks[2].error = ""
  /\ tasks[2].request = "list starred"
  /\ tasks[2].messages = <<TextMessage("user", <<"show unread">>),
                           TextMessage("user", <<"list starred">>)>>
  /\ Persisted("U1") = <<TextMessage("user", <<"show unread">>),
                         TextMessage("user", <<"list starred">>),
                         TextMessage("assistant", tasks[2].result)>>

\* C25: when the Mailbox Service returns an empty list, the result of
\* search_emails and of list_recent_emails is the sentinel
\* formatEmailListForSlack returns for an empty list.
C25_EmptyListSentinel ==
  [][\A t \in TaskIds, reply \in Replies :
       (/\ tasks[t].pc = "tool"
        /\ CurrentToolUse(tasks[t]).name \in {"search_emails", "list_recent_emails"}
        /\ reply.transport = "ok" /\ reply.items = 0
        /\ ToolReturns(t, reply)) =>
         tasks'[t].toolResults[Len(tasks'[t].toolResults)].text =
           formatEmailListForSlack(0)]_vars

\* C26: get_email_details renders the body after the header.  A body longer
\* than 500 characters is rendered as its first 500 characters followed by
\* "..."; a body of at most 500 characters, 500 included, is rendered
\* whole, so the body part never exceeds 503 characters; an email with no
\* body or an empty body gets the snippet line instead.
C26_BodyCutAtLimit ==
  [][\A t \in TaskIds, reply \in EmailReplies :
       (/\ tasks[t].pc = "tool"
        /\ CurrentToolUse(tasks[t]).name = "get_email_details"
        /\ ToolReturns(t, reply)) =>
         LET text == tasks'[t].toolResults[Len(tasks'[t].toolResults)].text
             h == Len(EmailHeader)
             part == SubSeq(text, h + 2, Len(text))
         IN /\ SubSeq(text, 1, h) = EmailHeader
            /\ IF reply.body = <<>> \/ reply.body[1] = <<>>
               THEN SubSeq(text, h + 1, Len(text)) = <<"\n_", "snippet", "_">>
               ELSE LET body == reply.body[1] IN
                    /\ text[h + 1] = "\n>>> "
                    /\ Len(part) <= 503
                    /\ Len(body) <= 500 => part = body
                    /\ Len(body) > 500 =>
                         /\ Len(part) = 503
                         /\ \A i \in 1 .. 500 : part[i] = body[i]
                         /\ \A i \in 501 .. 503 : part[i] = "."]_vars

\* An email whose body has exactly 500 characters and one whose body has 501
\* were rendered in the same turn: the first whole, the second cut.
C26_Witness ==
  \E t \in TaskIds :
    /\ Len(tasks[t].toolResults) = 2
    /\ tasks[t].toolResults[1].text = EmailHeader \o <<"\n>>> ">> \o Body(500)
    /\ tasks[t].toolResults[2].text =
         EmailHeader \o <<"\n>>> ">> \o Body(500) \o <<".", ".", ".">>

\* C27: a turn leaves the loop only when a model response has a stop reason
\* other than tool_use, which gives the final answer, or when a call fails;
\* a tool_use response always leads to another model call, there is no cap.
\* When every external call settles and the model eventually answers without
\* requesting tools, a turn that has started eventually reaches its reply.
C27_TurnEndsWhenModelStops ==
  /\ [][\A t \in TaskIds :
          LET old == tasks[t]
              new == tasks'[t]
          IN (old.pc \in {"model", "tool"} /\ new.pc \notin {"model", "tool"}) =>
               /\ new.pc = "replying"
               /\ \/ new.error # ""
                  \/ /\ new.response.stop_reason # "tool_use"
                     /\ new.result = FinalResponse(new.response)]_vars
  /\ \A t \in TaskIds :
       tasks[t].pc = "placeholder" ~> tasks[t].pc = "replying"

\* A turn went through a round of tools and a second model call and has its
\* final answer.
C27_Witness ==
  \E t \in TaskIds :
    /\ tasks[t].pc = "replying" /\ tasks[t].error = ""
    /\ tasks[t].modelCalls = 2
    /\ tasks[t].response.stop_reason = "end_turn"
    /\ tasks[t].result = FinalResponse(tasks[t].response)

\* C28: executing a tool touches nothing local.  A step of the tool loop
\* leaves the Memory Store and the Session Registry as they were; when it
\* starts a known tool it issues exactly one Mailbox call, the one of that
\* tool, and otherwise none.
C28_ToolHasNoLocalEffect ==
  [][\A t \in TaskIds :
       LET old == tasks[t]
           new == tasks'[t]
           inLoop == \/ old.pc = "tool"
                     \/ old.pc = "model" /\ new.pc \in {"tool", "model"}
                        /\ new.response.stop_reason = "tool_use"
                        /\ new # old
           starts == /\ new.pc = "tool"
                     /\ old.pc = "model" \/ new.toolIdx # old.toolIdx
       IN inLoop =>
            /\ conversationMemory' = conversationMemory
            /\ \A u \in Users :
                 conversationMemory[u] # NoState =>
                   heap'[conversationMemory[u]] = heap[conversationMemory[u]]
            /\ activeSessions' = activeSessions
            /\ IF starts
               THEN LET toolUse == CurrentToolUse(new) IN
                    /\ toolUse.name \in DispatcherCases
                    /\ new.calls =
                         Append(old.calls, MailboxRequest(toolUse.name, toolUse.input))
               ELSE new.calls = old.calls]_vars

\* A known tool has run after an unknown one in a thread session: one Mailbox
\* call was made, the user's state and session are in place.
C28_Witness ==
  /\ tasks[1].pc = "model" /\ tasks[1].modelCalls = 2
  /\ Len(tasks[1].toolResults) = 2
  /\ tasks[1].calls = <<MailboxRequest("batch_star_emails", NoArgs)>>
  /\ conversationMemory["U1"] # NoState
  /\ HasSession(activeSessions, getSessionKey("C1", "T1"))

\* C29: a chat message outside a thread, or in a thread whose key has no
\* live session, is never treated as a request or a control word; the step
\* that handles it starts no handler, creates no session and no
\* ConversationState and appends to no history.  A key gets a session only
\* when the post of /gmail start resolves.
C29_MessageWithoutSessionIgnored ==
  [][/\ \A u \in Users, c \in Channels, th \in Threads \cup {NoThread},
          raw \in MessageTexts :
          LET key == getSessionKey(c, th)
              active == /\ th # NoThread
                        /\ HasSession(activeSessions, key)
                        /\ key \notin ExpiredKeys(activeSessions, now)
          IN /\ ~active =>
                  /\ \A t \in TaskIds : ~MessageRequest(t, u, c, th, raw, MaxTurns)
                  /\ ~MessageStop(u, c, th, raw)
                  /\ ~MessageClear(u, c, th, raw)
                  /\ ~MessageForeign(u, c, th, raw)
             /\ (MessageIgnored(u, c, th, raw) \/ MessageNoSession(u, c, th, raw)) =>
                  /\ tasks' = tasks
                  /\ turns' = turns
                  /\ \A k \in Keys :
                       HasSession(activeSessions', k) => HasSession(activeSessions, k)
                  /\ \A v \in Users :
                       conversationMemory'[v] \in {NoState, conversationMemory[v]}
                  /\ \A o \in ObjIds : heap'[o] = heap[o] \/ heap'[o] = FreeCell
     /\ \A k \in Keys :
          (~HasSession(activeSessions, k) /\ HasSession(activeSessions', k)) =>
            \E t \in TaskIds :
              /\ tasks[t].pc = "startPosting"
              /\ tasks[t].handler = "command"
              /\ tasks'[t].pc = "idle"]_vars

\* A message arrived in a thread whose session had expired: the sweep
\* removed what was left, and no session, state or handler came of it.
C29_Witness ==
  /\ lastEvent.op = "sweep" /\ lastEvent.ended # {}
  /\ \A t \in TaskIds : tasks[t].pc = "idle"
  /\ \A k \in Keys : ~HasSession(activeSessions, k)
  /\ \A u \in Users : conversationMemory[u] = NoState
  /\ turns = 1

\* The Mailbox calls made so far on behalf of find_marketing_emails.
MarketingCalls ==
  {c \in UNION {{tasks[t].calls[i] : i \in 1 .. Len(tasks[t].calls)} : t \in TaskIds} :
     c.op = "findMarketingEmails"}

\* C30: the count find_marketing_emails passes to the Mailbox Service lies in
\* 1 .. 10 whatever maxResults the model supplied: absent, 0, negative or
\* above 10.
C30_MarketingCountNormalized ==
  \A c \in MarketingCalls : c.count \in 1 .. 10

\* C31: clearConversation is unconditional and idempotent.  Applied to the
\* store of any reachable state, for a user with or without a state, it
\* leaves that user without a state, a second application changes nothing,
\* and the other users' entries are the same objects; the step of /gmail
\* clear does exactly this and leaves the other users' histories as they
\* were.
C31_ClearIdempotent ==
  [][\A u \in Users :
       LET once == clearConversation(conversationMemory, u) IN
       /\ once[u] = NoState
       /\ clearConversation(once, u) = once
       /\ \A v \in Users \ {u} : once[v] = conversationMemory[v]
       /\ \A c \in Channels, raw \in {" CLEAR ", "reset"} :
            GmailClear(u, c, raw) =>
              /\ conversationMemory' = once
              /\ \A v \in Users \ {u} :
                   conversationMemory[v] # NoState =>
                     heap'[conversationMemory[v]] = heap[conversationMemory[v]]]_vars

\* U1 and U2 each had a turn; U1's clear removed U1's state and U2's history
\* is whole.
C31_Witness ==
  /\ lastEvent.op = "GmailClear" /\ lastEvent.userId = "U1"
  /\ turns = 2
  /\ \A t \in TaskIds : tasks[t].pc = "idle"
  /\ conversationMemory["U1"] = NoState
  /\ conversationMemory["U2"] # NoState
  /\ Len(heap[conversationMemory["U2"]].messages) = 2

\* C32: the message list of every request to the model starts with a
\* user-role entry, also after the history has been trimmed from the front.
C32_RequestStartsWithUser ==
  \A t \in TaskIds :
    tasks[t].pc = "model" => tasks[t].messages[1].role = "user"

\* C33: a turn that ends with an error is not rolled back.  The failing step
\* leaves the store and the turn's history as they are, with the turn's user
\* entry last and no assistant entry after it, and makes no further Mailbox
\* call, so the calls already made stand; the next turn of the user, begun on
\* a history that ends with a user entry, sends the model two consecutive
\* user entries.
C33_FailedTurnNotRolledBack ==
  [][\A t \in TaskIds :
       LET old == tasks[t]
           new == tasks'[t]
           s == old.state
       IN /\ (old.pc \in {"model", "tool"} /\ new.pc = "replying" /\ new.error # "") =>
               /\ conversationMemory' = conversationMemory
               /\ heap'[s] = heap[s] \/ conversationMemory[old.userId] # s
               /\ conversationMemory[old.userId] = s =>
                    heap'[s].messages[Len(heap'[s].messages)] =
                      TextMessage("user", StrOf(old.request))
               /\ new.calls = old.calls
          /\ (/\ old.pc = "placeholder" /\ new.pc = "model"
              /\ Persisted(old.userId) # <<>>
              /\ Persisted(old.userId)[Len(Persisted(old.userId))].role = "user") =>
               LET n == Len(new.messages) IN
               /\ n >= 2
               /\ new.messages[n - 1].role = "user"
               /\ new.messages[n].role = "user"]_vars

\* The first turn ended with an error; the second turn's request to the
\* model holds the two user entries and nothing between them.
C33_Witness ==
  /\ tasks[1].pc = "model" /\ turns = 2
  /\ tasks[1].messages = <<TextMessage("user", <<"show unread">>),
                           TextMessage("user", <<"show unread">>)>>
  /\ Persisted("U1") = tasks[1].messages

\* C34: every assistant entry of every history, and every final answer a
\* handler holds, is a non-empty string: a final response without text, or
\* whose text is empty, is stored and returned as the fallback sentence.
C34_AnswersNonEmpty ==
  /\ \A o \in ObjIds :
       \A i \in 1 .. Len(heap[o].messages) :
         heap[o].messages[i].role = "assistant" =>
           /\ heap[o].messages[i].form = "string"
           /\ heap[o].messages[i].text # <<>>
  /\ \A t \in TaskIds :
       (tasks[t].pc = "replying" /\ tasks[t].error = "") =>
         /\ tasks[t].result # <<>>
         /\ JoinText(TextBlocks(tasks[t].response)) = <<>> =>
              tasks[t].result = FALLBACK_RESPONSE

\* The model's final response held one empty text segment: the fallback
\* sentence was persisted and returned.
C34_Witness ==
  /\ tasks[1].pc = "replying" /\ tasks[1].error = ""
  /\ tasks[1].response = ResponseBlankText
  /\ tasks[1].result = FALLBACK_RESPONSE
  /\ Persisted("U1")[Len(Persisted("U1"))] = TextMessage("assistant", FALLBACK_RESPONSE)

\* C35: a turn whose state object left the map while it was suspended
\* still completes: it returns its answer, the map is left as it is (no
\* state is created again for the user) and no other object changes, so a
\* state created after the clear gets nothing and no later turn sees the
\* answer.
C35_DetachedAnswerInvisible ==
  [][\A t \in TaskIds :
       LET old == tasks[t]
           new == tasks'[t]
           s == old.state
           u == old.userId
       IN (/\ old.pc = "model" /\ new.pc = "replying" /\ new.error = ""
           /\ conversationMemory[u] # s) =>
            /\ lastEvent'.op = "detachedAnswer"
            /\ new.result = FinalResponse(new.response)
            /\ new.post.kind = "answer"
            /\ conversationMemory' = conversationMemory
            /\ \A o \in ObjIds \ {s} : heap'[o] = heap[o]
            /\ \A v \in Users : conversationMemory'[v] # s]_vars

\* A turn of U1 answered into an object the map had dropped while a later
\* turn of U1, begun on a state created after the removal, is waiting for
\* the model with a history of its own request only.
C35_Witness ==
  /\ lastEvent.op = "detachedAnswer" /\ lastEvent.userId = "U1"
  /\ \E t \in TaskIds :
       /\ tasks[t].pc = "replying" /\ tasks[t].error = ""
       /\ tasks[t].result = FinalResponse(ResponseText)
       /\ \E p \in TaskIds \ {t} :
            /\ tasks[p].pc = "model"
            /\ tasks[p].state = conversationMemory["U1"]
            /\ Persisted("U1") = <<TextMessage("user", <<tasks[p].request>>)>>
  /\ now = 0

\* C36: the sessions of one user share the one state kept under the userId.
\* A stop in one thread removes that session and the user's state and keeps
\* every other live session; a lookup by anyone removes every expired
\* session together with its owner's state, however recently that state was
\* touched, and keeps the live sessions, of the same owner too.
C36_SessionsShareOneState ==
  [][\A c \in Channels, th \in Threads :
       LET key == getSessionKey(c, th)
           expired == ExpiredKeys(activeSessions, now)
       IN /\ MessageStop("U1", c, th, " Stop ") =>
               /\ ~HasSession(activeSessions', key)
               /\ conversationMemory'["U1"] = NoState
               /\ \A k \in Keys \ (expired \cup {key}) :
                    HasSession(activeSessions, k) => HasSession(activeSessions', k)
          /\ (\/ MessageNoSession("U2", c, th, "show unread")
              \/ MessageForeign("U2", c, th, "show unread")) =>
               /\ \A k \in expired :
                    /\ ~HasSession(activeSessions', k)
                    /\ conversationMemory'[activeSessions[k].userId] = NoState
               /\ \A k \in Keys \ expired :
                    HasSession(activeSessions, k) => HasSession(activeSessions', k)]_vars

\* U1 has a live session in T2 and a /gmail turn whose state was touched at
\* this very instant; U2's message made the lookup that swept U1's expired
\* session in T1, and U1's state is gone from the map.
C36_Witness ==
  /\ lastEvent.op = "MessageForeign" /\ lastEvent.ended = {"U1"}
  /\ ~HasSession(activeSessions, getSessionKey("C1", "T1"))
  /\ HasSession(activeSessions, getSessionKey("C1", "T2"))
  /\ activeSessions[getSessionKey("C1", "T2")].userId = "U1"
  /\ conversationMemory["U1"] = NoState
  /\ tasks[1].pc = "model" /\ tasks[1].handler = "command"
  /\ heap[tasks[1].state].lastActivity = now

\* The step is one of user u's own: a step of a handler invocation of u, or
\* a clear or stop sent by u.
OwnStep(u) ==
  \/ \E t \in TaskIds :
       tasks'[t] # tasks[t] /\ u \in {tasks[t].userId, tasks'[t].userId}
  \/ /\ lastEvent'.userId = u
     /\ lastEvent'.op \in {"GmailClear", "GmailStop", "MessageClear", "MessageStop"}

\* C37: users are isolated.  No two users share a state object; a step that
\* is not user B's own leaves B without a state if B had none, and otherwise
\* leaves B's state object as it was or removes it from the map, the latter
\* only when B's state or a session of B has idled past its timeout; and the
\* request a turn sends to the model is the history of its own user's
\* object, which is no other user's.
C37_UsersIsolated ==
  [][/\ \A a \in Users, b \in Users :
          (a # b /\ conversationMemory[a] # NoState) =>
            conversationMemory[a] # conversationMemory[b]
     /\ \A b \in Users :
          LET sB == conversationMemory[b] IN
          ~OwnStep(b) =>
            IF sB = NoState THEN conversationMemory'[b] = NoState
            ELSE \/ conversationMemory'[b] = sB /\ heap'[sB] = heap[sB]
                 \/ /\ conversationMemory'[b] = NoState
                    /\ \/ now - heap[sB].lastActivity > MEMORY_TIMEOUT_MS
                       \/ b \in ExpiredOwners(activeSessions, now)
     /\ \A t \in TaskIds :
          (tasks[t].pc = "placeholder" /\ tasks'[t].pc = "model") =>
            /\ tasks'[t].state = conversationMemory'[tasks'[t].userId]
            /\ tasks'[t].messages = heap'[tasks'[t].state].messages
            /\ \A b \in Users \ {tasks'[t].userId} :
                 conversationMemory'[b] # tasks'[t].state]_vars

\* U2 has a history of one complete turn; U1's turn has begun beside it and
\* the request it sends holds U1's own entry only.
C37_Witness ==
  /\ tasks[1].pc = "model" /\ tasks[1].userId = "U1"
  /\ tasks[1].messages = <<TextMessage("user", <<"show unread">>)>>
  /\ conversationMemory["U2"] # NoState
  /\ conversationMemory["U2"] # conversationMemory["U1"]
  /\ Len(Persisted("U2")) = 2
  /\ Persisted("U2")[2].role = "assistant"

\* C38: the catalog and the switch of executeTool agree.  The catalog has 16
\* names; in every round of tools, the result of a request that names a
\* catalog tool is not the unknown-tool diagnostic, the result of a request
\* that names anything else is that diagnostic, and a Mailbox call is only
\* ever pending for a catalog tool.
C38_CatalogMatchesDispatcher ==
  /\ Cardinality(ToolCatalog) = 16
  /\ \A t \in TaskIds :
       (/\ tasks[t].pc \in {"tool", "model"}
        /\ tasks[t].response.stop_reason = "tool_use") =>
         LET blocks == ToolUseBlocks(tasks[t].response) IN
         /\ \A i \in 1 .. Len(tasks[t].toolResults) :
              (blocks[i].name \in ToolCatalog) <=>
                (tasks[t].toolResults[i].text # <<"Unknown tool: ", blocks[i].name>>)
         /\ tasks[t].pc = "tool" => blocks[tasks[t].toolIdx].name \in ToolCatalog

\* The last tool of the catalog was requested and executeTool answered with
\* its own result.
C38_Witness ==
  /\ tasks[1].pc = "model"
  /\ tasks[1].response = ResponseTool("get_unsubscribe_info")
  /\ Len(tasks[1].toolResults) = 1
  /\ tasks[1].toolResults[1].text = <<"*Unsubscribe Info for:* ", "subject">>

\* C39: the stop reason drives the loop.  A response whose stop reason is
\* tool_use keeps the turn in the loop: its tool requests are executed one
\* by one, each getting a result before the next model call, and when it
\* holds none the exchange is pushed with an empty list of results and the
\* model is called again.  A response with any other stop reason ends the
\* turn with its text: no tool is run and no Mailbox call made for the tool
\* requests it holds.
C39_StopReasonDrivesLoop ==
  [][\A t \in TaskIds :
       LET old == tasks[t]
           new == tasks'[t]
           r == new.response
       IN /\ (old.pc = "model" /\ new # old /\ new.error = "") =>
               IF r.stop_reason = "tool_use"
               THEN /\ new.pc \in {"tool", "model"}
                    /\ ToolUseBlocks(r) = <<>> =>
                         /\ new.pc = "model"
                         /\ new.modelCalls = old.modelCalls + 1
                         /\ new.calls = old.calls
                         /\ new.messages =
                              old.messages \o <<BlockMessage("assistant", r.content),
                                                BlockMessage("user", <<>>)>>
               ELSE /\ new.pc = "replying"
                    /\ new.result = FinalResponse(r)
                    /\ new.calls = old.calls
                    /\ new.toolResults = old.toolResults
          /\ (/\ old.pc \in {"model", "tool"} /\ new.pc = "model"
              /\ new.modelCalls = old.modelCalls + 1) =>
               /\ r.stop_reason = "tool_use"
               /\ Len(new.toolResults) = Len(ToolUseBlocks(r))
               /\ new.messages[Len(new.messages)] = BlockMessage("user", new.toolResults)]_vars

\* The model answered tool_use without a tool request: the second model call
\* is pending and the working list ends with an empty list of results.
C39_Witness ==
  /\ tasks[1].pc = "model" /\ tasks[1].modelCalls = 2
  /\ tasks[1].response = ResponseNoRequest
  /\ tasks[1].calls = <<>>
  /\ tasks[1].messages[Len(tasks[1].messages)] = BlockMessage("user", <<>>)

\* C40: when two turns of one user overlap and nothing removes or trims the
\* history, no append is lost.  Every step keeps what the persisted history
\* held; the start of a turn appends its user entry and the answer of a turn
\* appends its assistant entry, whatever the other turn has appended in
\* between; and once both turns have answered the history is the two user
\* entries and the two assistant entries, each turn's user entry before its
\* assistant entry.
C40_OverlapLosesNothing ==
  [][/\ IsPrefix(Persisted("U1"), Persisted("U1")')
     /\ \A t \in TaskIds :
          LET old == tasks[t]
              new == tasks'[t]
          IN /\ (old.pc = "placeholder" /\ new.pc = "model") =>
                  Persisted("U1")' =
                    Append(Persisted("U1"), TextMessage("user", <<old.request>>))
             /\ (old.pc = "model" /\ new.pc = "replying" /\ new.error = "") =>
                  Persisted("U1")' =
                    Append(Persisted("U1"), TextMessage("assistant", new.result))
     /\ (/\ turns' = 2
         /\ \A t \in TaskIds : tasks'[t].pc = "replying" /\ tasks'[t].error = "") =>
          LET h == Persisted("U1")' IN
          /\ Len(h) = 4
          /\ \E i1, j1, i2, j2 \in 1 .. 4 :
               /\ Cardinality({i1, j1, i2, j2}) = 4
               /\ i1 < j1 /\ i2 < j2
               /\ h[i1] = TextMessage("user", <<tasks'[1].request>>)
               /\ h[j1] = TextMessage("assistant", tasks'[1].result)
               /\ h[i2] = TextMessage("user", <<tasks'[2].request>>)
               /\ h[j2] = TextMessage("assistant", tasks'[2].result)]_vars

\* Both turns have answered; the second turn began and answered between the
\* first turn's two appends, and all four entries are in the history.
C40_Witness ==
  /\ tasks[1].pc = "replying" /\ tasks[1].request = "show unread"
  /\ tasks[1].result = FinalResponse(ResponseText)
  /\ tasks[2].pc = "replying" /\ tasks[2].request = "list starred"
  /\ tasks[2].result = FinalResponse(ResponseTwoTexts)
  /\ Persisted("U1") = <<TextMessage("user", <<"show unread">>),
                         TextMessage("user", <<"list starred">>),
                         TextMessage("assistant", FinalResponse(ResponseTwoTexts)),
                         TextMessage("assistant", FinalResponse(ResponseText))>>

====
